---- MODULE Spec2Model ----
(***************************************************************************)
(* A model of src/build_profile.py: one conversion run of main(), which    *)
(* parses a CR30 CSV export (parse_cr30_csv), parses a TI2 layout          *)
(* (parse_ti2) and writes the paired TI3 (write_ti3).                      *)
(*                                                                         *)
(* Text is modelled as text: a file is a string, a line is a string, and   *)
(* split / strip / replace / lower / int() / float() are computed on the   *)
(* characters.  A Python float is modelled as an exact decimal with three  *)
(* fractional digits, held as an integer number of thousandths; the input  *)
(* files use only plain decimal literals with at most three decimals, so   *)
(* float() is exact on them, and none has a third decimal of 5, so that    *)
(* rounding to two decimals never meets a tie.  Optional values (None) are *)
(* modelled as the empty tuple, a present value v as <<v>>.                *)
(***************************************************************************)
EXTENDS Integers, Sequences, FiniteSets, TLC

(***************************************************************************)
(* Strings                                                                 *)
(***************************************************************************)
NoneVal == <<>>
Some(v) == <<v>>
IsNone(o) == o = <<>>
Val(o) == o[1]

Ch(s, i) == SubSeq(s, i, i)

UpperStr == "ABCDEFGHIJKLMNOPQRSTUVWXYZ"
LowerStr == "abcdefghijklmnopqrstuvwxyz"
DigitStr == "0123456789"

UpperSet == {Ch(UpperStr, i) : i \in 1..26}
LowerSet == {Ch(LowerStr, i) : i \in 1..26}
DigitSet == {Ch(DigitStr, i) : i \in 1..10}

UpperToLower == [c \in UpperSet |-> Ch(LowerStr, CHOOSE i \in 1..26 : Ch(UpperStr, i) = c)]
LowerToUpper == [c \in LowerSet |-> Ch(UpperStr, CHOOSE i \in 1..26 : Ch(LowerStr, i) = c)]
DigitVal == [c \in DigitSet |-> (CHOOSE i \in 1..10 : Ch(DigitStr, i) = c) - 1]

\* str.isspace() on the characters the inputs use
IsSpace(c) == c \in {" ", "\t", "\r", "\n"}

RECURSIVE LStrip(_)
LStrip(s) == IF s # "" /\ IsSpace(Ch(s, 1)) THEN LStrip(Tail(s)) ELSE s

RECURSIVE RStrip(_)
RStrip(s) ==
    IF s # "" /\ IsSpace(Ch(s, Len(s))) THEN RStrip(SubSeq(s, 1, Len(s) - 1)) ELSE s

\* str.strip()
Strip(s) == RStrip(LStrip(s))

\* str.rstrip(c) for a single character c
RECURSIVE RStripChar(_, _)
RStripChar(s, c) ==
    IF s # "" /\ Ch(s, Len(s)) = c THEN RStripChar(SubSeq(s, 1, Len(s) - 1), c) ELSE s

\* str.replace(a, b) for single characters
RECURSIVE Replace(_, _, _)
Replace(s, a, b) ==
    IF s = "" THEN ""
    ELSE (IF Ch(s, 1) = a THEN b ELSE Ch(s, 1)) \o Replace(Tail(s), a, b)

\* str.lower() / str.upper()
RECURSIVE Lower(_)
Lower(s) ==
    IF s = "" THEN ""
    ELSE (IF Ch(s, 1) \in UpperSet THEN UpperToLower[Ch(s, 1)] ELSE Ch(s, 1)) \o Lower(Tail(s))

RECURSIVE Upper(_)
Upper(s) ==
    IF s = "" THEN ""
    ELSE (IF Ch(s, 1) \in LowerSet THEN LowerToUpper[Ch(s, 1)] ELSE Ch(s, 1)) \o Upper(Tail(s))

\* str.startswith(p)
StartsWith(s, p) == Len(s) >= Len(p) /\ SubSeq(s, 1, Len(p)) = p

\* every character of s is in the set cs
AllIn(s, cs) == \A i \in 1..Len(s) : Ch(s, i) \in cs

\* the places 1..n that satisfy Test, in ascending order
Places(n, Test(_)) == SelectSeq([i \in 1..n |-> i], Test)

\* str.split(sep) for a single character sep: always at least one piece
Split(s, sep) ==
    LET n == Len(s)
        seps == Places(n, LAMBDA i : Ch(s, i) = sep)
        m == Len(seps)
    IN  [k \in 1..(m + 1) |-> SubSeq(s, (IF k = 1 THEN 1 ELSE seps[k - 1] + 1),
                                         (IF k = m + 1 THEN n ELSE seps[k] - 1))]

\* str.split() with no argument: the whitespace-separated tokens, none empty
Tokens(s) ==
    LET n == Len(s)
        starts == Places(n, LAMBDA i : ~IsSpace(Ch(s, i)) /\ (i = 1 \/ IsSpace(Ch(s, i - 1))))
        ends == Places(n, LAMBDA i : ~IsSpace(Ch(s, i)) /\ (i = n \/ IsSpace(Ch(s, i + 1))))
        m == Len(starts)
    IN  [k \in 1..m |-> SubSeq(s, starts[k], ends[k])]

\* sep.join(parts)
RECURSIVE Join(_, _)
Join(parts, sep) ==
    IF parts = <<>> THEN ""
    ELSE IF Len(parts) = 1 THEN parts[1]
    ELSE parts[1] \o sep \o Join(Tail(parts), sep)

\* the value of a string of decimal digits
RECURSIVE DigitsVal(_)
DigitsVal(s) ==
    IF s = "" THEN 0 ELSE 10 * DigitsVal(SubSeq(s, 1, Len(s) - 1)) + DigitVal[Ch(s, Len(s))]

\* str(n) for an integer n
RECURSIVE NatStr(_)
NatStr(n) == IF n < 10 THEN Ch(DigitStr, n + 1) ELSE NatStr(n \div 10) \o Ch(DigitStr, (n % 10) + 1)

IntStr(n) == IF n < 0 THEN "-" \o NatStr(0 - n) ELSE NatStr(n)

Min(a, b) == IF a <= b THEN a ELSE b


(***************************************************************************)
(* Numbers                                                                 *)
(***************************************************************************)
RECURSIVE Pow10(_)
Pow10(n) == IF n = 0 THEN 1 ELSE 10 * Pow10(n - 1)

Abs(n) == IF n < 0 THEN 0 - n ELSE n

\* float(s) for a stripped plain decimal literal [+-]digits[.digits]: the value
\* in thousandths, or None where float() raises ValueError
PyFloat(s) ==
    LET signed == s # "" /\ Ch(s, 1) \in {"+", "-"}
        body == IF signed THEN Tail(s) ELSE s
        sgn == IF signed /\ Ch(s, 1) = "-" THEN -1 ELSE 1
        pieces == Split(body, ".")
        ip == pieces[1]
        fp == IF Len(pieces) = 2 THEN pieces[2] ELSE ""
    IN  IF Len(pieces) > 2 \/ ~AllIn(ip, DigitSet) \/ ~AllIn(fp, DigitSet)
           \/ (ip = "" /\ fp = "")
        THEN NoneVal
        ELSE Some(sgn * (DigitsVal(ip) * 1000 + DigitsVal(SubSeq(fp \o "000", 1, 3))))

\* int(s): optional sign and decimal digits, surrounding whitespace allowed
PyInt(s) ==
    LET t == Strip(s)
        signed == t # "" /\ Ch(t, 1) \in {"+", "-"}
        body == IF signed THEN Tail(t) ELSE t
    IN  IF body = "" \/ ~AllIn(body, DigitSet) THEN NoneVal
        ELSE Some((IF signed /\ Ch(t, 1) = "-" THEN -1 ELSE 1) * DigitsVal(body))

\* int(f) of a float f (in thousandths): truncation toward zero
FloatToInt(f) == (IF f < 0 THEN -1 ELSE 1) * (Abs(f) \div 1000)

\* f'{v:.{prec}f}' of a float v (in thousandths), prec in {2, 5, 6}: round to
\* prec decimals (half to even) and print with exactly prec decimals
Fixed(v, prec) ==
    LET a == Abs(v)
        u == IF prec >= 3 THEN a * Pow10(prec - 3)
             ELSE LET d == Pow10(3 - prec)
                      q == a \div d
                      r == a % d
                  IN  IF 2 * r > d \/ (2 * r = d /\ q % 2 = 1) THEN q + 1 ELSE q
        frac == NatStr(u % Pow10(prec))
        zeros == SubSeq("000000", 1, prec - Len(frac))
    IN  (IF v < 0 THEN "-" ELSE "") \o NatStr(u \div Pow10(prec)) \o "." \o zeros \o frac

\* f'{n:03d}' for n >= 0
Pad3(n) == LET d == NatStr(n) IN SubSeq("000", 1, 3 - Len(d)) \o d

(***************************************************************************)
(* _to_float                                                               *)
(***************************************************************************)
\* _to_float(val): strip, decimal comma to point, '' / nan / null are missing,
\* an unparsable token is missing
ToFloat(val) ==
    LET s == Replace(Strip(val), ",", ".")
    IN  IF s = "" \/ Lower(s) \in {"nan", "null"} THEN NoneVal ELSE PyFloat(s)


(***************************************************************************)
(* Sorting: list.sort(key=lambda t: t[k]) is stable                        *)
(***************************************************************************)
Front(s) == SubSeq(s, 1, Len(s) - 1)

\* [s[i] for i in range(len(s)) if keep[i]]: a comprehension with a condition
Keep(s, keep) ==
    LET ps == SelectSeq([i \in 1..Len(s) |-> <<s[i], keep[i]>>], LAMBDA p : p[2])
    IN  [i \in 1..Len(ps) |-> ps[i][1]]

Last(s) == s[Len(s)]

\* e put after every element whose key is not greater than e's
InsertByKey(sorted, e, k) ==
    LET n == Cardinality({i \in 1..Len(sorted) : sorted[i][k] <= e[k]})
    IN  SubSeq(sorted, 1, n) \o <<e>> \o SubSeq(sorted, n + 1, Len(sorted))

\* no sort: the sequence is left in the order it was read
SortByKeyFileOrder(s, k) == s

RECURSIVE SortByKey(_, _)
SortByKey(s, k) == IF s = <<>> THEN <<>> ELSE InsertByKey(SortByKey(Front(s), k), Last(s), k)

(***************************************************************************)
(* parse_cr30_csv: the header                                              *)
(***************************************************************************)
WlMin == 300
WlMax == 1100

NameChars == LowerSet \cup DigitSet \cup {"_"}

RECURSIVE KeepChars(_, _)
KeepChars(s, cs) ==
    IF s = "" THEN ""
    ELSE (IF Ch(s, 1) \in cs THEN Ch(s, 1) ELSE "") \o KeepChars(Tail(s), cs)

\* norm = lambda s: re.sub(r'[^a-z0-9_]+', '', s.strip().lower())
Norm(s) == KeepChars(Lower(Strip(s)), NameChars)

\* text.split('\n') with the trailing '\r' of each line removed
CsvLines(text) == LET ls == Split(text, "\n") IN [i \in 1..Len(ls) |-> RStripChar(ls[i], "\r")]

\* header = [h.strip() for h in lines[0].split(';')]
HeaderCells(line) == LET hs == Split(line, ";") IN [i \in 1..Len(hs) |-> Strip(hs[i])]

\* hmap = {norm(h): i for i, h in enumerate(header)} as the list of its
\* (key, index) items: a key keeps the place of its first cell and the index
\* of its last cell
HMap(header) ==
    LET keys == [i \in 1..Len(header) |-> Norm(header[i])]
        n == Len(keys)
        first == [i \in 1..n |-> \A j \in 1..(i - 1) : keys[j] # keys[i]]
        last == [i \in 1..n |-> CHOOSE j \in i..n :
                                    keys[j] = keys[i] /\ \A m \in (j + 1)..n : keys[m] # keys[i]]
    IN  Keep([i \in 1..n |-> <<keys[i], last[i] - 1>>], first)

\* hmap.get(key)
HGet(hmap, key) ==
    IF \E i \in 1..Len(hmap) : hmap[i][1] = key
    THEN Some((CHOOSE it \in {hmap[i] : i \in 1..Len(hmap)} : it[1] = key)[2])
    ELSE NoneVal

\* Python's `a or b` on Optional[int]: None and 0 are both falsy
PyOr(a, b) == IF ~IsNone(a) /\ Val(a) # 0 THEN a ELSE b

\* re.search(r'(\d{3})(?:nm)?$', key): the three digits closing the key, or
\* closing it before a final "nm"
SpecWl(key) ==
    LET n == Len(key)
        tail3 == SubSeq(key, n - 2, n)
        mid3 == SubSeq(key, n - 4, n - 2)
    IN  IF n >= 3 /\ AllIn(tail3, DigitSet) THEN Some(DigitsVal(tail3))
        ELSE IF n >= 5 /\ SubSeq(key, n - 1, n) = "nm" /\ AllIn(mid3, DigitSet)
             THEN Some(DigitsVal(mid3))
             ELSE NoneVal

\* spec_cols: (column index, wavelength) of every spectral key, sorted by wavelength
SpecCols(hmap) ==
    LET wls == [i \in 1..Len(hmap) |-> <<hmap[i][2], SpecWl(hmap[i][1])>>]
        hits == SelectSeq(wls, LAMBDA t : ~IsNone(t[2]) /\ WlMin <= Val(t[2]) /\ Val(t[2]) <= WlMax)
    IN  SortByKey([i \in 1..Len(hits) |-> <<hits[i][1], Val(hits[i][2])>>], 2)

\* idx_L = hmap.get('l') or hmap.get('l*') or hmap.get('lstar'), and likewise
LabIndex(hmap, c) == PyOr(PyOr(HGet(hmap, c), HGet(hmap, c \o "*")), HGet(hmap, c \o "star"))

\* the column indices parse_cr30_csv takes from the header line
CsvColumns(headerLine) ==
    LET hmap == HMap(HeaderCells(headerLine))
    IN  [ idx_name |-> HGet(hmap, "name"),
          idx_date |-> HGet(hmap, "date"),
          idx_mode |-> HGet(hmap, "testmode"),
          idx_lsag |-> HGet(hmap, "lightsourceangle"),
          idx_L |-> LabIndex(hmap, "l"),
          idx_a |-> LabIndex(hmap, "a"),
          idx_b |-> LabIndex(hmap, "b"),
          idx_X |-> HGet(hmap, "x"),
          idx_Y |-> HGet(hmap, "y"),
          idx_Z |-> HGet(hmap, "z"),
          spec_cols |-> SpecCols(hmap) ]

(***************************************************************************)
(* parse_cr30_csv: one data line                                           *)
(***************************************************************************)
\* parts[idx] if idx is not None and idx < len(parts) else ''
TextCell(parts, idx) ==
    IF ~IsNone(idx) /\ Val(idx) < Len(parts) THEN parts[Val(idx) + 1] ELSE ""

\* _to_float(parts[idx]) if idx is not None and idx < len(parts) else None
FloatCell(parts, idx) ==
    IF ~IsNone(idx) /\ Val(idx) < Len(parts) THEN ToFloat(parts[Val(idx) + 1]) ELSE NoneVal

\* the spectral map of a line: wavelength -> value, a later column of the same
\* wavelength overwriting an earlier one
SpectralOf(parts, spec_cols) ==
    LET v == [k \in 1..Len(spec_cols) |->
                IF spec_cols[k][1] < Len(parts) THEN ToFloat(parts[spec_cols[k][1] + 1]) ELSE NoneVal]
        hit == {k \in 1..Len(v) : ~IsNone(v[k])}
        lastHit(wl) == CHOOSE k \in hit :
                          spec_cols[k][2] = wl /\ \A m \in hit : spec_cols[m][2] = wl => m <= k
    IN  [wl \in {spec_cols[k][2] : k \in hit} |-> Val(v[lastHit(wl)])]

AlnumSet == UpperSet \cup LowerSet \cup DigitSet

RECURSIVE PrefixLen(_, _)
PrefixLen(s, cs) == IF s # "" /\ Ch(s, 1) \in cs THEN 1 + PrefixLen(Tail(s), cs) ELSE 0

\* re.match(r'([A-Za-z0-9]+)\s*/\s*(\d+)\s*°?', lsag): (token upper-cased, digits)
LsagMatch(lsag) ==
    LET n1 == PrefixLen(lsag, AlnumSet)
        r2 == LStrip(SubSeq(lsag, n1 + 1, Len(lsag)))
        r3 == LStrip(Tail(r2))
        n2 == PrefixLen(r3, DigitSet)
    IN  IF n1 = 0 \/ r2 = "" THEN NoneVal
        ELSE IF Ch(r2, 1) # "/" \/ n2 = 0 THEN NoneVal
        ELSE Some(<<Upper(SubSeq(lsag, 1, n1)), DigitsVal(SubSeq(r3, 1, n2))>>)

\* if not line.strip(): continue
IsBlank(line) == Strip(line) = ""

\* a stricter filter: a line is dropped when either of L and X is missing
RejectedEither(L, X) == IsNone(L) \/ IsNone(X)

\* if L is None and X is None: continue
Rejected(L, X) == IsNone(L) /\ IsNone(X)

\* the record parse_cr30_csv appends for an accepted line
CsvRecord(parts, idx) ==
    [ name |-> TextCell(parts, idx.idx_name),
      date |-> TextCell(parts, idx.idx_date),
      test_mode |-> TextCell(parts, idx.idx_mode),
      light_source_angle |-> TextCell(parts, idx.idx_lsag),
      L |-> FloatCell(parts, idx.idx_L),
      a |-> FloatCell(parts, idx.idx_a),
      b |-> FloatCell(parts, idx.idx_b),
      X |-> FloatCell(parts, idx.idx_X),
      Y |-> FloatCell(parts, idx.idx_Y),
      Z |-> FloatCell(parts, idx.idx_Z),
      spectral |-> SpectralOf(parts, idx.spec_cols) ]


(***************************************************************************)
(* parse_ti2: the lines, the data-format block, the header                 *)
(***************************************************************************)
\* lines = [ln.rstrip('\n') for ln in f]
Ti2Lines(text) ==
    LET ls == Split(text, "\n") IN IF Last(ls) = "" THEN Front(ls) ELSE ls

\* the 1-based place of the first line of ls, from place `from` on, whose
\* stripped text is `marker`; Len(ls) + 1 when there is none
FirstLine(ls, marker, from) ==
    LET hits == {i \in from..Len(ls) : Strip(ls[i]) = marker}
    IN  IF hits = {} THEN Len(ls) + 1 ELSE CHOOSE i \in hits : \A j \in hits : i <= j

\* fmt_end: the 0-based index of the first END_DATA_FORMAT line, or None
FmtEnd(ls) ==
    LET e == FirstLine(ls, "END_DATA_FORMAT", 1)
    IN  IF e > Len(ls) THEN NoneVal ELSE Some(e - 1)

\* the scan for BEGIN_DATA_FORMAT going on past END_DATA_FORMAT
FmtStartAnywhere(ls) ==
    LET hits == {i \in 1..Len(ls) : Strip(ls[i]) = "BEGIN_DATA_FORMAT"}
    IN  IF hits = {} THEN NoneVal ELSE Some(CHOOSE i \in hits : \A j \in hits : j <= i)

\* fmt_start: one past the 0-based index of the last BEGIN_DATA_FORMAT line the
\* scan meets before it stops at END_DATA_FORMAT, or None
FmtStart(ls) ==
    LET e == FirstLine(ls, "END_DATA_FORMAT", 1)
        hits == {i \in 1..(e - 1) : Strip(ls[i]) = "BEGIN_DATA_FORMAT"}
    IN  IF hits = {} THEN NoneVal ELSE Some(CHOOSE i \in hits : \A j \in hits : j <= i)

\* if fmt_start is None or fmt_end is None: raise ValueError
MissingFormatBlock(ls) == IsNone(FmtStart(ls)) \/ IsNone(FmtEnd(ls))

\* header_end_idx (0-based): the nearest NUMBER_OF_FIELDS line at or above
\* line fmt_start - 1, else fmt_start - 1
HeaderEndIdx(ls, fmt_start) ==
    LET hits == {i \in 0..(fmt_start - 1) : StartsWith(Strip(ls[i + 1]), "NUMBER_OF_FIELDS")}
    IN  IF hits = {} THEN fmt_start - 1 ELSE CHOOSE i \in hits : \A j \in hits : j <= i

\* header_lines: the non-blank lines before header_end_idx that do not start with CTI
HeaderLines(ls, fmt_start) ==
    SelectSeq(SubSeq(ls, 1, HeaderEndIdx(ls, fmt_start)),
              LAMBDA ln : Strip(ln) # "" /\ ~StartsWith(Strip(ln), "CTI"))

KeyChars == UpperSet \cup DigitSet \cup {"_"}

\* re.match(r'^([A-Z0-9_]+)\s+"?([^"]+)"?\s*$', hl.strip()): (key, value) or None
HeaderKeyValue(hl) ==
    LET s == Strip(hl)
        n1 == PrefixLen(s, KeyChars)
        rest == SubSeq(s, n1 + 1, Len(s))
        body == LStrip(rest)
        w == Len(rest) - Len(body)
        n == Len(body)
        noQuote(t) == \A i \in 1..Len(t) : Ch(t, i) # "\""
        open == n >= 1 /\ Ch(body, 1) = "\""
        shut == n >= 1 /\ Ch(body, n) = "\""
        inner == SubSeq(body, (IF open THEN 2 ELSE 1), (IF shut /\ n >= 2 THEN n - 1 ELSE n))
    IN  IF n1 = 0 \/ w = 0 \/ n = 0 THEN NoneVal
        ELSE IF body = "\"" THEN (IF w >= 2 THEN Some(<<SubSeq(s, 1, n1), Ch(rest, w)>>) ELSE NoneVal)
        ELSE IF inner # "" /\ noQuote(inner) THEN Some(<<SubSeq(s, 1, n1), inner>>)
        ELSE NoneVal

\* header_map as the list of its (key, value) assignments in line order
HeaderMap(header_lines) ==
    LET kv == [i \in 1..Len(header_lines) |-> HeaderKeyValue(header_lines[i])]
        hits == SelectSeq(kv, LAMBDA o : ~IsNone(o))
    IN  [i \in 1..Len(hits) |-> Val(hits[i])]

\* header_map.get(key): the last assignment wins
HeaderGet(header_map, key) ==
    LET hits == {i \in 1..Len(header_map) : header_map[i][1] = key}
    IN  IF hits = {} THEN NoneVal
        ELSE Some(header_map[CHOOSE i \in hits : \A j \in hits : j <= i][2])

RECURSIVE Flatten(_)
Flatten(ss) == IF ss = <<>> THEN <<>> ELSE Head(ss) \o Flatten(Tail(ss))

\* fields: the whitespace-separated tokens of lines[fmt_start:fmt_end]
FormatFields(ls, fmt_start, fmt_end) ==
    LET block == SubSeq(ls, fmt_start + 1, fmt_end)
    IN  Flatten([i \in 1..Len(block) |-> Tokens(block[i])])

AllowedPrefixes == {"RGB_", "CMYK_", "GRAY_", "K_"}
CanonicalFields == <<"RGB_R", "RGB_G", "RGB_B", "CMYK_C", "CMYK_M", "CMYK_Y", "CMYK_K">>

InSeq(e, s) == \E i \in 1..Len(s) : s[i] = e

\* list.index(e) (0-based) for an element that occurs
IndexOf(s, e) == (CHOOSE i \in 1..Len(s) : s[i] = e /\ \A j \in 1..(i - 1) : s[j] # e) - 1

\* device_fields: the fields with a device prefix, else the canonical names declared
DeviceFields(fields) ==
    LET byPrefix == SelectSeq(fields, LAMBDA f : \E p \in AllowedPrefixes : StartsWith(f, p))
    IN  IF byPrefix # <<>> THEN byPrefix
        ELSE Keep(CanonicalFields, [i \in 1..Len(CanonicalFields) |-> InSeq(CanonicalFields[i], fields)])

\* loc_index
LocIndex(fields) == IF InSeq("SAMPLE_LOC", fields) THEN Some(IndexOf(fields, "SAMPLE_LOC")) ELSE NoneVal

(***************************************************************************)
(* parse_ti2: the data rows                                                *)
(***************************************************************************)
\* the non-blank lines the data loop handles: after the first BEGIN_DATA that
\* comes before the first END_DATA, up to that END_DATA; later BEGIN_DATA lines
\* are passed over
DataLines(ls) ==
    LET e == FirstLine(ls, "END_DATA", 1)
        b == FirstLine(SubSeq(ls, 1, e - 1), "BEGIN_DATA", 1)
    IN  SelectSeq(SubSeq(ls, b + 1, e - 1),
                  LAMBDA ln : Strip(ln) # "" /\ Strip(ln) # "BEGIN_DATA")

\* sid = int(parts[0]); a ValueError skips the row
RowSid(parts) == PyInt(parts[1])

\* the SAMPLE_LOC token of a row with one layer of double quotes removed, or
\* None when the row has no token at loc_index
RowLoc(parts, loc_index) ==
    IF IsNone(loc_index) \/ Val(loc_index) >= Len(parts) THEN NoneVal
    ELSE LET raw == parts[Val(loc_index) + 1]
         IN  IF Len(raw) >= 2 /\ Ch(raw, 1) = "\"" /\ Ch(raw, Len(raw)) = "\""
             THEN Some(SubSeq(raw, 2, Len(raw) - 1))
             ELSE Some(raw)

\* a device-only re-index: the token at f's place among the device fields,
\* counted after the sample id
RowDeviceValueReindexed(parts, fields, f) ==
    IF ~InSeq(f, DeviceFields(fields)) THEN 0
    ELSE LET pidx == IndexOf(DeviceFields(fields), f) + 1
             v == ToFloat(parts[pidx + 1])
         IN  IF pidx < Len(parts) THEN (IF IsNone(v) THEN 0 ELSE Val(v)) ELSE 0

\* the value of device field f on a row: the token at f's place in the full
\* field list, 0.0 when the row is too short or the token does not parse
RowDeviceValue(parts, fields, f) ==
    IF ~InSeq(f, fields) THEN 0
    ELSE LET pidx == IndexOf(fields, f)
             v == ToFloat(parts[pidx + 1])
         IN  IF pidx < Len(parts) THEN (IF IsNone(v) THEN 0 ELSE Val(v)) ELSE 0

RowDeviceValues(parts, fields, device_fields) ==
    [k \in 1..Len(device_fields) |-> RowDeviceValue(parts, fields, device_fields[k])]

\* the rows whose token 0 is an integer, tokenized, in file order
SampleRows(ls) ==
    LET dl == DataLines(ls)
        toks == [i \in 1..Len(dl) |-> Tokens(Strip(dl[i]))]
    IN  SelectSeq(toks, LAMBDA parts : ~IsNone(RowSid(parts)))

\* device_values before the sort: (sid, vals) of the sample rows rs, in file order
DeviceValuesRead(rs, fields, device_fields) ==
    [i \in 1..Len(rs) |-> <<Val(RowSid(rs[i])), RowDeviceValues(rs[i], fields, device_fields)>>]

\* sample_locs as read from the sample rows rs: (sid, loc) of each row that has the token
SampleLocsRead(rs, loc_index) ==
    LET hits == Keep(rs, [i \in 1..Len(rs) |-> ~IsNone(RowLoc(rs[i], loc_index))])
    IN  [i \in 1..Len(hits) |-> <<Val(RowSid(hits[i])), Val(RowLoc(hits[i], loc_index))>>]

(***************************************************************************)
(* parse_ti2: deriving the locations                                       *)
(***************************************************************************)
\* float(v.strip()) raises: the value is a non-blank string that is no number
HeaderIntRaises(v) ==
    ~IsNone(v) /\ Strip(Val(v)) # "" /\ IsNone(PyFloat(Strip(Val(v))))

\* int(float(v.strip())) if isinstance(v, str) and v.strip() else None
HeaderInt(v) ==
    IF IsNone(v) THEN NoneVal
    ELSE IF Strip(Val(v)) = "" THEN NoneVal
    ELSE Some(FloatToInt(Val(PyFloat(Strip(Val(v))))))

\* (cols, rows) after the try/except: an exception in either leaves both None
GridSize(header_map) ==
    LET sp == HeaderGet(header_map, "STEPS_IN_PASS")
        ps2 == HeaderGet(header_map, "PASSES_IN_STRIPS2")
    IN  IF HeaderIntRaises(sp) \/ HeaderIntRaises(ps2) THEN <<NoneVal, NoneVal>>
        ELSE <<HeaderInt(sp), HeaderInt(ps2)>>

\* index_order = header_map.get('INDEX_ORDER', '').strip().upper()
IndexOrder(header_map) ==
    LET v == HeaderGet(header_map, "INDEX_ORDER")
    IN  IF IsNone(v) THEN "" ELSE Upper(Strip(Val(v)))

\* a test that does not compare the grid with the number of samples
CanDeriveAnyCount(cols, rows, n) ==
    /\ ~IsNone(cols) /\ ~IsNone(rows)
    /\ Val(cols) > 0 /\ Val(rows) > 0

\* if cols and rows and cols > 0 and rows > 0 and len(device_values) == cols * rows
CanDerive(cols, rows, n) ==
    /\ ~IsNone(cols) /\ Val(cols) # 0
    /\ ~IsNone(rows) /\ Val(rows) # 0
    /\ Val(cols) > 0 /\ Val(rows) > 0
    /\ n = Val(cols) * Val(rows)

RECURSIVE row_label(_)
row_label(idx0) ==
    LET c == Ch(UpperStr, (idx0 % 26) + 1)
        i == (idx0 \div 26) - 1
    IN  IF i < 0 THEN c ELSE row_label(i) \o c

\* the two traversals exchanged
DerivedLabelSwapped(i, cols, rows, index_order) ==
    IF index_order = "PATCH_THEN_STRIP"
    THEN row_label(i \div cols) \o IntStr((i % cols) + 1)
    ELSE row_label(i % rows) \o IntStr((i \div rows) + 1)

\* the label of the sample at positional index i (0-based)
DerivedLabel(i, cols, rows, index_order) ==
    IF index_order = "STRIP_THEN_PATCH"
    THEN row_label(i \div cols) \o IntStr((i % cols) + 1)
    ELSE IF index_order = "PATCH_THEN_STRIP"
    THEN row_label(i % rows) \o IntStr((i \div rows) + 1)
    ELSE row_label(i \div cols) \o IntStr((i % cols) + 1)

\* the derived table: one (sid, label) per device sample, sorted by sid
DerivedLocs(device_values, header_map) ==
    LET g == GridSize(header_map)
    IN  IF CanDerive(g[1], g[2], Len(device_values))
        THEN SortByKey([k \in 1..Len(device_values) |->
                           <<device_values[k][1],
                             DerivedLabel(k - 1, Val(g[1]), Val(g[2]), IndexOrder(header_map))>>], 1)
        ELSE <<>>

\* a table in which the derived labels, when there are any, replace the file's
SampleLocsDerivedFirst(read, device_values, header_map) ==
    IF DerivedLocs(device_values, header_map) # <<>>
    THEN DerivedLocs(device_values, header_map)
    ELSE SortByKey(read, 1)

\* sample_locs as returned: the table read from the file when it is not empty
\* (sorted by sid), else the derived table
SampleLocs(read, device_values, header_map) ==
    IF read # <<>> THEN SortByKey(read, 1) ELSE DerivedLocs(device_values, header_map)

\* parse_ti2's result for a file, of lines ls, that has a data-format block
Ti2Parsed(ls) ==
    LET fmt_start == Val(FmtStart(ls))
        fmt_end == Val(FmtEnd(ls))
        header_lines == HeaderLines(ls, fmt_start)
        fields == FormatFields(ls, fmt_start, fmt_end)
        device_fields == DeviceFields(fields)
        rs == SampleRows(ls)
        device_values == SortByKey(DeviceValuesRead(rs, fields, device_fields), 1)
    IN  [ device_fields |-> device_fields,
          device_values |-> device_values,
          sample_locs |-> SampleLocs(SampleLocsRead(rs, LocIndex(fields)), device_values,
                                     HeaderMap(header_lines)),
          header_lines |-> header_lines ]


(***************************************************************************)
(* write_ti3                                                               *)
(***************************************************************************)
\* has_lab / has_xyz / has_spec: any(...) over cr30['rows']
HasLab(rows) == \E i \in 1..Len(rows) : ~IsNone(rows[i].L)
\* a test that looks at the first row only
HasXyzFirst(rows) == rows # <<>> /\ ~IsNone(rows[1].X)

HasXyz(rows) == \E i \in 1..Len(rows) : ~IsNone(rows[i].X)
HasSpec(rows) == \E i \in 1..Len(rows) : DOMAIN rows[i].spectral # {}

\* dev_tag
DevTag(device_fields) ==
    IF \E i \in 1..Len(device_fields) : StartsWith(device_fields[i], "RGB_") THEN "RGB"
    ELSE IF \E i \in 1..Len(device_fields) : StartsWith(device_fields[i], "CMYK_") THEN "CMYK"
    ELSE "DEV"

\* Lab preferred over XYZ
PcsLabFirst(include_xyz, include_lab) == IF include_lab THEN "LAB" ELSE "XYZ"

\* pcs = 'XYZ' if include_xyz else ('LAB' if include_lab else 'XYZ')
Pcs(include_xyz, include_lab) == IF include_xyz THEN "XYZ" ELSE IF include_lab THEN "LAB" ELSE "XYZ"

ColorRep(device_fields, include_xyz, include_lab) ==
    "i" \o DevTag(device_fields) \o "_" \o Pcs(include_xyz, include_lab)

\* a pairing that leaves the last pair out
NumSetsLessOne(device_values, rows) ==
    IF Min(Len(device_values), Len(rows)) > 0 THEN Min(Len(device_values), Len(rows)) - 1 ELSE 0

\* N = min(len(device_values), len(cr30['rows']))
NumSets(device_values, rows) == Min(Len(device_values), Len(rows))

\* a table is used only when it has more than N entries
LocByIndexStrict(sample_locs, N) ==
    IF sample_locs # <<>> /\ Len(sample_locs) > N
    THEN Some([i \in 1..N |-> sample_locs[i][2]])
    ELSE NoneVal

\* the labels of the last N entries of the table
LocByIndexLast(sample_locs, N) ==
    IF sample_locs # <<>> /\ Len(sample_locs) >= N
    THEN Some([i \in 1..N |-> sample_locs[Len(sample_locs) - N + i][2]])
    ELSE NoneVal

\* loc_by_index: the labels of sample_locs[:N] when sample_locs is non-empty
\* and has at least N entries, else None
LocByIndex(sample_locs, N) ==
    IF sample_locs # <<>> /\ Len(sample_locs) >= N
    THEN Some([i \in 1..N |-> sample_locs[i][2]])
    ELSE NoneVal

\* sorted(s) for a finite set of integers
RECURSIVE SortedSet(_)
SortedSet(S) ==
    IF S = {} THEN <<>>
    ELSE LET m == CHOOSE x \in S : \A y \in S : x <= y IN <<m>> \o SortedSet(S \ {m})

\* the sorted union of the wavelength sets of the rows
SpecWlsUnion(rows) == SortedSet(UNION {DOMAIN rows[i].spectral : i \in 1..Len(rows)})

\* spec_wls_sorted: when has_spec, the sorted intersection of the wavelength
\* sets of the rows whose spectral map is not empty
SpecWlsSorted(rows) ==
    IF HasSpec(rows)
    THEN LET all_sets == {DOMAIN rows[i].spectral : i \in {j \in 1..Len(rows) : DOMAIN rows[j].spectral # {}}}
         IN  SortedSet({wl \in UNION all_sets : \A S \in all_sets : wl \in S})
    ELSE <<>>

\* the Lab names declared before the XYZ names
OutFieldsLabFirst(device_fields, loc_by_index, include_xyz, include_lab, spec_wls_sorted) ==
    <<"SAMPLE_ID">>
    \o (IF ~IsNone(loc_by_index) THEN <<"SAMPLE_LOC">> ELSE <<>>)
    \o device_fields
    \o (IF include_lab THEN <<"LAB_L", "LAB_A", "LAB_B">> ELSE <<>>)
    \o (IF include_xyz THEN <<"XYZ_X", "XYZ_Y", "XYZ_Z">> ELSE <<>>)
    \o [k \in 1..Len(spec_wls_sorted) |-> "SPEC_" \o Pad3(spec_wls_sorted[k])]

\* fields: SAMPLE_ID, optional SAMPLE_LOC, device fields, XYZ, Lab, SPEC_ bands
OutFields(device_fields, loc_by_index, include_xyz, include_lab, spec_wls_sorted) ==
    <<"SAMPLE_ID">>
    \o (IF ~IsNone(loc_by_index) THEN <<"SAMPLE_LOC">> ELSE <<>>)
    \o device_fields
    \o (IF include_xyz THEN <<"XYZ_X", "XYZ_Y", "XYZ_Z">> ELSE <<>>)
    \o (IF include_lab THEN <<"LAB_L", "LAB_A", "LAB_B">> ELSE <<>>)
    \o [k \in 1..Len(spec_wls_sorted) |-> "SPEC_" \o Pad3(spec_wls_sorted[k])]

\* XYZ tokens that fall back on the row's Lab values when its XYZ is incomplete
XyzTokensFromLab(row) ==
    IF ~IsNone(row.X) /\ ~IsNone(row.Y) /\ ~IsNone(row.Z)
    THEN <<Fixed(Val(row.X), 6), Fixed(Val(row.Y), 6), Fixed(Val(row.Z), 6)>>
    ELSE IF ~IsNone(row.L) /\ ~IsNone(row.a) /\ ~IsNone(row.b)
    THEN <<Fixed(Val(row.L), 6), Fixed(Val(row.a), 6), Fixed(Val(row.b), 6)>>
    ELSE <<"0.000000", "0.000000", "0.000000">>

\* the XYZ tokens of a row when the XYZ group is included
XyzTokens(row) ==
    IF ~IsNone(row.X) /\ ~IsNone(row.Y) /\ ~IsNone(row.Z)
    THEN <<Fixed(Val(row.X), 6), Fixed(Val(row.Y), 6), Fixed(Val(row.Z), 6)>>
    ELSE <<"0.000000", "0.000000", "0.000000">>

\* the Lab tokens of a row when the Lab group is included
LabTokens(row) ==
    IF ~IsNone(row.L) /\ ~IsNone(row.a) /\ ~IsNone(row.b)
    THEN <<Fixed(Val(row.L), 2), Fixed(Val(row.a), 2), Fixed(Val(row.b), 2)>>
    ELSE <<"0.00", "0.00", "0.00">>

\* the spectral tokens of a row: its value at each emitted band, 0.0 when it has none
SpecTokens(row, spec_wls_sorted) ==
    [k \in 1..Len(spec_wls_sorted) |->
        IF spec_wls_sorted[k] \in DOMAIN row.spectral
        THEN Fixed(row.spectral[spec_wls_sorted[k]], 6)
        ELSE Fixed(0, 6)]

\* line_parts of the data row of sample (sid, dev) and measurement row `row`
LineParts(sid, dev, row, loc, include_xyz, include_lab, spec_wls_sorted) ==
    <<IntStr(sid)>>
    \o (IF ~IsNone(loc) THEN <<"\"" \o Val(loc) \o "\"">> ELSE <<>>)
    \o [k \in 1..Len(dev) |-> Fixed(dev[k], 5)]
    \o (IF include_xyz THEN XyzTokens(row) ELSE <<>>)
    \o (IF include_lab THEN LabTokens(row) ELSE <<>>)
    \o SpecTokens(row, spec_wls_sorted)

\* the spectral header lines
SpectralHeader(has_spec, spec_wls_sorted) ==
    IF has_spec
    THEN <<"INSTRUMENT_TYPE_SPECTRAL \"YES\"">>
         \o (IF spec_wls_sorted # <<>>
             THEN << "SPECTRAL_BANDS \"" \o IntStr(Len(spec_wls_sorted)) \o "\"",
                     "SPECTRAL_START_NM \"" \o Fixed(1000 * Head(spec_wls_sorted), 6) \o "\"",
                     "SPECTRAL_END_NM \"" \o Fixed(1000 * Last(spec_wls_sorted), 6) \o "\"" >>
             ELSE <<>>)
    ELSE <<"INSTRUMENT_TYPE_SPECTRAL \"NO\"">>

PromotedKeys == {"COMP_GREY_STEPS", "PAPER_SIZE", "CHART_ID"}

\* re.match(r'^([A-Z0-9_]+)\s+(.*)$', s) on a stripped header line, promoted
\* when the key is on the whitelist
PromotedLine(hl) ==
    LET s == Strip(hl)
        n1 == PrefixLen(s, KeyChars)
        rest == SubSeq(s, n1 + 1, Len(s))
    IN  IF n1 >= 1 /\ LStrip(rest) # rest /\ SubSeq(s, 1, n1) \in PromotedKeys
        THEN Some(SubSeq(s, 1, n1) \o " " \o LStrip(rest))
        ELSE NoneVal

PromotedHeader(header_lines) ==
    LET ps == SelectSeq([i \in 1..Len(header_lines) |-> PromotedLine(header_lines[i])],
                        LAMBDA o : ~IsNone(o))
    IN  [i \in 1..Len(ps) |-> Val(ps[i])]

\* the file write_ti3 writes, as its lines (the CREATED line, a clock reading, left out)
Ti3File(device_fields, device_values, rows, sample_locs, header_lines) ==
    LET include_xyz == HasXyz(rows)
        include_lab == HasLab(rows)
        N == NumSets(device_values, rows)
        loc_by_index == LocByIndex(sample_locs, N)
        spec_wls_sorted == SpecWlsSorted(rows)
        fields == OutFields(device_fields, loc_by_index, include_xyz, include_lab, spec_wls_sorted)
    IN  [ color_rep |-> ColorRep(device_fields, include_xyz, include_lab),
          spectral |-> SpectralHeader(HasSpec(rows), spec_wls_sorted),
          promoted |-> PromotedHeader(header_lines),
          number_of_fields |-> Len(fields),
          format |-> Join(fields, " ") \o " ",
          number_of_sets |-> N,
          data |-> [i \in 1..N |->
                      Join(LineParts(device_values[i][1], device_values[i][2], rows[i],
                                     (IF IsNone(loc_by_index) THEN NoneVal
                                      ELSE Some(Val(loc_by_index)[i])),
                                     include_xyz, include_lab, spec_wls_sorted), " ") \o " "] ]

(***************************************************************************)
(* cr30_to_ti3: parse_ti1, lab_to_xyz and write_ti3 of the sibling converter *)
(***************************************************************************)
\* parse_ti1: the device fields and the device values sorted by sample id,
\* read as parse_ti2 reads them; no locations, no header lines
Ti1Parsed(ls) ==
    LET fields == FormatFields(ls, Val(FmtStart(ls)), Val(FmtEnd(ls)))
        device_fields == DeviceFields(fields)
    IN  [ device_fields |-> device_fields,
          device_values |-> SortByKey(DeviceValuesRead(SampleRows(ls), fields, device_fields), 1) ]

\* include_xyz: no group when spectral data is present and preferred; else
\* XYZ when some row has X and (no row has L or XYZ is preferred)
Cr30IncludeXyz(has_lab, has_xyz, has_spec, prefer_spectral, prefer_xyz_over_lab) ==
    /\ ~(has_spec /\ prefer_spectral)
    /\ has_xyz /\ (~has_lab \/ prefer_xyz_over_lab)

\* include_lab: the elif of the same decision
Cr30IncludeLab(has_lab, has_xyz, has_spec, prefer_spectral, prefer_xyz_over_lab) ==
    /\ ~(has_spec /\ prefer_spectral)
    /\ ~(has_xyz /\ (~has_lab \/ prefer_xyz_over_lab))
    /\ has_lab

\* pcs = 'XYZ' if (include_xyz or (has_spec and prefer_spectral)) else 'LAB'
Cr30Pcs(include_xyz, has_spec, prefer_spectral) ==
    IF include_xyz \/ (has_spec /\ prefer_spectral) THEN "XYZ" ELSE "LAB"

\* the reference white of lab_to_xyz, in thousandths: D65, else D50
WhiteD50 == <<96422, 100000, 82521>>
WhiteD65 == <<95047, 100000, 108883>>
White(illuminant) == IF Upper(illuminant) = "D65" THEN WhiteD65 ELSE WhiteD50

\* white * f_inv(num / den) as a printed term: f_inv cubes its argument when
\* it exceeds delta = 6/29 and is linear below; the argument is kept as an
\* exact fraction, the product itself does not fit the integers of the checker
FInvTerm(white, num, den) ==
    Fixed(white, 3)
    \o (IF 29 * num > 6 * den THEN "*cube(" ELSE "*line(")
    \o IntStr(num) \o "/" \o IntStr(den) \o ")"

\* lab_to_xyz(L, a, b, illuminant) for L, a, b in thousandths:
\* fy = (L + 16) / 116, fx = fy + a / 500, fz = fy - b / 200
lab_to_xyz(L, a, b, illuminant) ==
    << FInvTerm(White(illuminant)[1], 125 * (L + 16000) + 29 * a, 14500000),
       FInvTerm(White(illuminant)[2], L + 16000, 116000),
       FInvTerm(White(illuminant)[3], 50 * (L + 16000) - 29 * b, 5800000) >>

\* the XYZ tokens of a row: its own XYZ, else computed from its Lab under
\* D50, else zeros
Cr30XyzTokens(row) ==
    IF ~IsNone(row.X) /\ ~IsNone(row.Y) /\ ~IsNone(row.Z)
    THEN <<Fixed(Val(row.X), 6), Fixed(Val(row.Y), 6), Fixed(Val(row.Z), 6)>>
    ELSE IF ~IsNone(row.L) /\ ~IsNone(row.a) /\ ~IsNone(row.b)
    THEN lab_to_xyz(Val(row.L), Val(row.a), Val(row.b), "D50")
    ELSE <<"0.000000", "0.000000", "0.000000">>

Cr30LineParts(sid, dev, row, include_xyz, include_lab, spec_wls_sorted) ==
    <<IntStr(sid)>>
    \o [k \in 1..Len(dev) |-> Fixed(dev[k], 5)]
    \o (IF include_xyz THEN Cr30XyzTokens(row) ELSE <<>>)
    \o (IF include_lab THEN LabTokens(row) ELSE <<>>)
    \o SpecTokens(row, spec_wls_sorted)

\* the file cr30_to_ti3.write_ti3 writes (the CREATED line left out)
Cr30Ti3File(device_fields, device_values, rows, prefer_spectral, prefer_xyz_over_lab) ==
    LET include_xyz == Cr30IncludeXyz(HasLab(rows), HasXyz(rows), HasSpec(rows),
                                      prefer_spectral, prefer_xyz_over_lab)
        include_lab == Cr30IncludeLab(HasLab(rows), HasXyz(rows), HasSpec(rows),
                                      prefer_spectral, prefer_xyz_over_lab)
        N == Min(Len(device_values), Len(rows))
        spec_wls_sorted == SpecWlsSorted(rows)
        fields == OutFields(device_fields, NoneVal, include_xyz, include_lab, spec_wls_sorted)
    IN  [ color_rep |-> "i" \o DevTag(device_fields) \o "_"
                            \o Cr30Pcs(include_xyz, HasSpec(rows), prefer_spectral),
          spectral |-> SpectralHeader(HasSpec(rows), spec_wls_sorted),
          number_of_fields |-> Len(fields),
          format |-> Join(fields, " ") \o " ",
          number_of_sets |-> N,
          data |-> [i \in 1..N |->
                      Join(Cr30LineParts(device_values[i][1], device_values[i][2], rows[i],
                                         include_xyz, include_lab, spec_wls_sorted), " ") \o " "] ]

(***************************************************************************)
(* The state of one run of main()                                          *)
(***************************************************************************)
VARIABLES
    pc,          \* where main() is
    csvFile,     \* the CSV file: <<text>>, or <<>> when the path names no file
    ti2File,     \* the layout file, likewise
    lines,       \* parse_cr30_csv: lines
    idx,         \* parse_cr30_csv: the idx_* column indices and spec_cols
    pos,         \* parse_cr30_csv: how many of lines[1:] the loop has handled
    rows,        \* parse_cr30_csv: rows
    illum_code,  \* parse_cr30_csv: illum_code
    observer,    \* parse_cr30_csv: observer
    ti2,         \* <<ti2_parsed>> once parse_ti2 has returned
    out,         \* <<the TI3 file>> once write_ti3 has written it
    out_dir,     \* whether the directory of the output file exists
    args,        \* cr30_to_ti3.main: <<the options>>; <<>> in a run of build_profile
    ti1File,     \* cr30_to_ti3: the ti1 file
    ti1,         \* cr30_to_ti3: <<ti1>> once parse_ti1 has returned
    rl_pc,       \* row_label: where the call is
    rl_idx0,     \* row_label: idx0
    rl_i,        \* row_label: i
    rl_s         \* row_label: s

\* the state of a call of row_label, and of a run of cr30_to_ti3
labelVars == <<rl_pc, rl_idx0, rl_i, rl_s>>
cr30Vars == <<args, ti1File, ti1>>

vars == <<pc, csvFile, ti2File, lines, idx, pos, rows, illum_code, observer, ti2, out,
          out_dir, cr30Vars, labelVars>>

NoColumns == CsvColumns("")

(***************************************************************************)
(* main(): the output paths, then the preflight checks                     *)
(***************************************************************************)
\* out_ti3 = resolve_output(...); out_icc = resolve_output(...): a path that is
\* not empty has its directory made by _ensure_dir
ResolveOutput ==
    /\ pc = "resolve_output"
    /\ pc' = "preflight"
    /\ out_dir' = TRUE
    /\ UNCHANGED <<csvFile, ti2File, lines, idx, pos, rows, illum_code, observer, ti2, out>>
    /\ UNCHANGED <<cr30Vars, labelVars>>

\* if not os.path.isfile(csv) ... if not os.path.isfile(ti2) ... sys.exit(2)
Preflight ==
    /\ pc = "preflight"
    /\ pc' = IF IsNone(csvFile) \/ IsNone(ti2File) THEN "exit_2" ELSE "parse_cr30_csv"
    /\ UNCHANGED <<csvFile, ti2File, lines, idx, pos, rows, illum_code, observer, ti2, out>>
    /\ UNCHANGED <<out_dir, cr30Vars, labelVars>>

(***************************************************************************)
(* parse_cr30_csv                                                          *)
(***************************************************************************)
\* if not lines: raise ValueError('Empty CSV'); else the header line gives the columns
CsvHeaderOf(ls) ==
    IF ls = <<>>
    THEN /\ pc' = "raised"
         /\ UNCHANGED <<lines, idx>>
    ELSE /\ pc' = "csv_rows"
         /\ lines' = ls
         /\ idx' = CsvColumns(ls[1])

\* the text is split into lines and the header line gives the columns
CsvHeader ==
    /\ pc = "parse_cr30_csv"
    /\ CsvHeaderOf(CsvLines(Val(csvFile)))
    /\ pos' = 0
    /\ rows' = <<>>
    /\ illum_code' = NoneVal
    /\ observer' = NoneVal
    /\ UNCHANGED <<csvFile, ti2File, ti2, out, out_dir, cr30Vars, labelVars>>

\* the loop body without the `illum_code is None` test: every matching line
\* sets the illuminant again
CsvLineLastWins(line, rec, m) ==
    IF IsBlank(line) \/ Rejected(rec.L, rec.X)
    THEN UNCHANGED <<rows, illum_code, observer>>
    ELSE /\ rows' = Append(rows, rec)
         /\ IF rec.light_source_angle # "" /\ ~IsNone(m)
            THEN /\ illum_code' = Some(Val(m)[1])
                 /\ observer' = Some(Val(m)[2])
            ELSE UNCHANGED <<illum_code, observer>>

\* the body of the loop for `line`, rec being the record read from its cells
\* and m the match of the illuminant pattern on its Light Source/Angle cell
CsvLine(line, rec, m) ==
    IF IsBlank(line) \/ Rejected(rec.L, rec.X)
    THEN UNCHANGED <<rows, illum_code, observer>>
    ELSE /\ rows' = Append(rows, rec)
         /\ IF IsNone(illum_code) /\ rec.light_source_angle # "" /\ ~IsNone(m)
            THEN /\ illum_code' = Some(Val(m)[1])
                 /\ observer' = Some(Val(m)[2])
            ELSE UNCHANGED <<illum_code, observer>>

\* one turn of `for line in lines[1:]`
CsvRow ==
    /\ pc = "csv_rows"
    /\ pos < Len(lines) - 1
    /\ pos' = pos + 1
    /\ CsvLine(lines[pos + 2], CsvRecord(Split(lines[pos + 2], ";"), idx),
               LsagMatch(TextCell(Split(lines[pos + 2], ";"), idx.idx_lsag)))
    /\ UNCHANGED <<pc, csvFile, ti2File, lines, idx, ti2, out, out_dir, cr30Vars, labelVars>>

\* the loop is over: return {'rows': rows, 'illum_code': ..., 'observer_deg': ...}
CsvReturn ==
    /\ pc = "csv_rows"
    /\ pos >= Len(lines) - 1
    /\ pc' = IF IsNone(args) THEN "parse_ti2" ELSE "parse_ti1"
    /\ UNCHANGED <<csvFile, ti2File, lines, idx, pos, rows, illum_code, observer, ti2, out>>
    /\ UNCHANGED <<out_dir, cr30Vars, labelVars>>

(***************************************************************************)
(* parse_ti2                                                               *)
(***************************************************************************)
\* raise ValueError when the data-format block is missing, else return the result
Ti2Return(ls) ==
    IF MissingFormatBlock(ls)
    THEN /\ pc' = "raised"
         /\ UNCHANGED ti2
    ELSE /\ pc' = "write_ti3"
         /\ ti2' = Some(Ti2Parsed(ls))

ParseTi2 ==
    /\ pc = "parse_ti2"
    /\ Ti2Return(Ti2Lines(Val(ti2File)))
    /\ UNCHANGED <<csvFile, ti2File, lines, idx, pos, rows, illum_code, observer, out>>
    /\ UNCHANGED <<out_dir, cr30Vars, labelVars>>

(***************************************************************************)
(* write_ti3                                                               *)
(***************************************************************************)
WriteTi3 ==
    /\ pc = "write_ti3"
    /\ pc' = "done"
    /\ out' = Some(Ti3File(Val(ti2).device_fields, Val(ti2).device_values, rows,
                           Val(ti2).sample_locs, Val(ti2).header_lines))
    /\ out_dir' = TRUE
    /\ UNCHANGED <<csvFile, ti2File, lines, idx, pos, rows, illum_code, observer, ti2>>
    /\ UNCHANGED <<cr30Vars, labelVars>>

Next == ResolveOutput \/ Preflight \/ CsvHeader \/ CsvRow \/ CsvReturn \/ ParseTi2 \/ WriteTi3

(***************************************************************************)
(* The input files of a run.  Every data line and every sample carries its *)
(* own number in its name and in its values, so that a row of the output   *)
(* can be told from any other.                                             *)
(***************************************************************************)
MaxCsvRows == 2
MaxSpecRows == 3
MaxSamples == 2
MaxGridSamples == 6

CsvHeaderLine == "Name;L*;a*;b*;X;Y;Z;400nm;500nm;600nm;Light Source/Angle"

LabCells(kind, i) ==
    CASE kind = "full"  -> <<"5" \o IntStr(i) \o ",127", "-" \o IntStr(i) \o ",004", "1" \o IntStr(i) \o ",5">>
      [] kind = "Lonly" -> <<"5" \o IntStr(i) \o ",127", "", "nan">>
      [] kind = "noL"   -> <<" ", "-" \o IntStr(i) \o ",004", "1" \o IntStr(i) \o ",5">>
      [] kind = "bad"   -> <<"n/a", "nan", "--">>
      [] OTHER          -> <<"", "", "">>

XyzCells(kind, i) ==
    CASE kind = "full"  -> <<"4" \o IntStr(i) \o ",25", "4" \o IntStr(i) \o ".5", "3" \o IntStr(i) \o ",125">>
      [] kind = "Xonly" -> <<"4" \o IntStr(i) \o ",25", "", "null">>
      [] kind = "bad"   -> <<"NULL", "4" \o IntStr(i) \o ".5", "3,1,2">>
      [] OTHER          -> <<"", "", "">>

\* bands: the wavelengths among 400, 500, 600 the line has a value for
SpecCells(bands, i) ==
    << IF 400 \in bands THEN "1" \o IntStr(i) \o ",5" ELSE "",
       IF 500 \in bands THEN "2" \o IntStr(i) \o ".25" ELSE "",
       IF 600 \in bands THEN "3" \o IntStr(i) ELSE "" >>

\* data line number i of a CSV
CsvDataLine(i, lab, xyz, bands, lsag) ==
    Join(<<"P" \o IntStr(i)>> \o LabCells(lab, i) \o XyzCells(xyz, i) \o SpecCells(bands, i)
         \o <<lsag>>, ";")

CsvText(dataLines) == Join(<<CsvHeaderLine>> \o dataLines, "\n")

\* the make-up of a data line: its (Lab, XYZ) cells, or a line of blanks, or a
\* line cut short after its name
ColorKinds ==
    { <<"full", "full">>, <<"full", "none">>, <<"none", "full">>,
      <<"full", "Xonly">>, <<"Lonly", "none">>, <<"none", "none">>, <<"bad", "bad">>,
      <<"blank">>, <<"short">> }

ColorLine(i, kind) ==
    IF kind = <<"blank">> THEN "  "
    ELSE IF kind = <<"short">> THEN "P" \o IntStr(i)
    ELSE CsvDataLine(i, kind[1], kind[2], {}, "")

BandKinds == { {}, {400, 500}, {400, 500, 600}, {600} }

\* CSV files whose lines differ in the colorimetric values they carry
ColorCsvs ==
    { CsvText([i \in 1..Len(f) |-> ColorLine(i, f[i])]) :
        f \in UNION {[1..k -> ColorKinds] : k \in 0..MaxCsvRows} }

\* CSV files whose lines differ in the spectral bands they carry
SpectralCsvs ==
    UNION { { CsvText([i \in 1..k |-> CsvDataLine(i, "full", "none", f[i], "D50/10")]) :
                f \in [1..k -> BandKinds] } : k \in 1..MaxSpecRows }

\* a CSV of k measured lines
PlainCsv(k) == CsvText([i \in 1..k |-> CsvDataLine(i, "full", "full", {}, "D65/10")])

\* a data row of a layout: the sample id, the location token if any, R G B
Ti2Row(sid, loc) ==
    Join(<<IntStr(sid)>> \o loc \o <<IntStr(sid) \o ".25", "50", "100.0">>, " ")

\* a layout file: header lines, the declared fields, the data rows
Ti2Text(header, fields, dataRows) ==
    Join(<<"CTI2   ", "", "DESCRIPTOR \"Argyll Target\"">>
         \o header
         \o <<"", "NUMBER_OF_FIELDS " \o IntStr(Len(fields)), "BEGIN_DATA_FORMAT",
              Join(fields, " "), "END_DATA_FORMAT", "",
              "NUMBER_OF_SETS " \o IntStr(Len(dataRows)), "BEGIN_DATA">>
         \o dataRows
         \o <<"END_DATA">>, "\n") \o "\n"

PlainFields == <<"SAMPLE_ID", "RGB_R", "RGB_G", "RGB_B">>
LocFields == <<"SAMPLE_ID", "SAMPLE_LOC", "RGB_R", "RGB_G", "RGB_B">>

\* a layout of n samples with neither locations nor grid keys
PlainTi2(n) == Ti2Text(<<>>, PlainFields, [i \in 1..n |-> Ti2Row(i, <<>>)])

\* header values: <<>> leaves the key out
ColsTexts == {<<>>, <<"1">>, <<"2">>, <<"3">>, <<"0">>, <<"-2">>, <<"x">>, <<"2.0">>}
RowsTexts == {<<>>, <<"1">>, <<"2">>, <<"3">>, <<"0">>, <<"x">>}
OrderTexts == {<<>>, <<"STRIP_THEN_PATCH">>, <<"strip_then_patch">>, <<"PATCH_THEN_STRIP">>,
               <<"Patch_Then_Strip">>, <<"RANDOM">>}

GridHeader(c, r, o) ==
    (IF c = <<>> THEN <<>> ELSE <<"STEPS_IN_PASS \"" \o c[1] \o "\"">>)
    \o (IF r = <<>> THEN <<>> ELSE <<"PASSES_IN_STRIPS2 " \o r[1]>>)
    \o (IF o = <<>> THEN <<>> ELSE <<"INDEX_ORDER \"" \o o[1] \o "\"">>)

\* layouts without a SAMPLE_LOC column, whose header may give the grid; the
\* file lists the samples in descending order of their ids
GridTi2s ==
    { Ti2Text(GridHeader(c, r, o), PlainFields, [i \in 1..n |-> Ti2Row(n + 1 - i, <<>>)]) :
        c \in ColsTexts, r \in RowsTexts, o \in OrderTexts, n \in 0..MaxGridSamples }

\* the explicit label of a sample: not one the derivation could produce
LocToken(sid, quoted) ==
    IF quoted THEN "\"q" \o IntStr(sid) \o "\"" ELSE "q" \o IntStr(sid)

\* layouts with a SAMPLE_LOC column: n samples in ascending or descending file
\* order, the rows in `short` cut down to their sample id, the grid keys
\* present (and consistent with n) or absent
LocTi2s ==
    UNION { { Ti2Text((IF grid THEN GridHeader(<<IntStr(n)>>, <<"1">>, <<>>) ELSE <<>>),
                      LocFields,
                      [i \in 1..n |->
                          LET sid == IF desc THEN n + 1 - i ELSE i
                          IN  IF sid \in short THEN IntStr(sid)
                              ELSE Ti2Row(sid, <<LocToken(sid, quoted)>>)]) :
                short \in SUBSET (1..n), desc \in BOOLEAN, quoted \in BOOLEAN, grid \in BOOLEAN }
            : n \in 1..(MaxSamples + 1) }

\* layouts of three data rows whose sample ids come in every order, an id
\* possibly repeated, with and without a SAMPLE_LOC column
OrderTi2s ==
    { Ti2Text(<<>>, (IF loc THEN LocFields ELSE PlainFields),
              [i \in 1..3 |-> Ti2Row(f[i], (IF loc THEN <<LocToken(f[i], TRUE)>> ELSE <<>>))]) :
        f \in [1..3 -> 1..3], loc \in BOOLEAN }

\* a layout whose lines between NUMBER_OF_FIELDS and NUMBER_OF_SETS are fmt
Ti2TextAround(fmt, dataRows) ==
    Join(<<"CTI2   ", "", "DESCRIPTOR \"Argyll Target\"", "", "NUMBER_OF_FIELDS 4">>
         \o fmt
         \o <<"", "NUMBER_OF_SETS " \o IntStr(Len(dataRows)), "BEGIN_DATA">>
         \o dataRows
         \o <<"END_DATA">>, "\n") \o "\n"

\* the lines around the declared fields: a marker missing, the markers in the
\* wrong order, a marker with other text on its line, and two well-formed blocks
FormatBlocks ==
    LET f == Join(PlainFields, " ")
    IN  { <<f>>,
          <<"BEGIN_DATA_FORMAT", f>>,
          <<f, "END_DATA_FORMAT">>,
          <<"END_DATA_FORMAT", f, "BEGIN_DATA_FORMAT">>,
          <<"END_DATA_FORMAT", "BEGIN_DATA_FORMAT", f, "END_DATA_FORMAT">>,
          <<"BEGIN_DATA_FORMAT 4", f, "END_DATA_FORMAT">>,
          <<"BEGIN_DATA_FORMAT", f, "# END_DATA_FORMAT">>,
          <<"BEGIN_DATA_FORMAT", f, "END_DATA_FORMAT">>,
          <<"  BEGIN_DATA_FORMAT", f, "END_DATA_FORMAT  ">> }

FormatTi2s ==
    { Ti2TextAround(fmt, [i \in 1..n |-> Ti2Row(i, <<>>)]) :
        fmt \in FormatBlocks, n \in 0..MaxSamples }

\* CSV files with nothing to read: no byte at all, a line end only, a header only
EmptyCsvs == {"", "\n", CsvHeaderLine, CsvHeaderLine \o "\n"}

\* declared field lists: device fields of each family, next to and between
\* fields of other kinds, and a list without any device field
DeviceFieldLists ==
    { LocFields,
      <<"SAMPLE_ID", "CMYK_C", "CMYK_M", "CMYK_Y", "CMYK_K">>,
      <<"SAMPLE_ID", "XYZ_X", "RGB_R", "XYZ_Y", "RGB_G", "RGB_B">>,
      <<"SAMPLE_ID", "GRAY_W", "LAB_L">>,
      <<"SAMPLE_ID", "XYZ_X", "XYZ_Y", "XYZ_Z">> }

\* the token of sample sid under the field at place j (from 1) of fields: the
\* sample's label, or a number that tells the sample and the place
DevToken(sid, fields, j) ==
    IF j = 1 THEN IntStr(sid)
    ELSE IF fields[j] = "SAMPLE_LOC" THEN LocToken(sid, TRUE)
    ELSE IntStr(sid) \o "." \o IntStr(j)

\* the make-up of a data row: complete, cut after its second token, with a
\* token that is no number, or with a first token that is no integer
DevRowKinds == {"full", "cut", "bad", "noid", "floatid"}

DevRow(sid, fields, kind) ==
    LET toks == [j \in 1..Len(fields) |->
                    IF j = 1 /\ kind = "noid" THEN "S" \o IntStr(sid)
                    ELSE IF j = 1 /\ kind = "floatid" THEN IntStr(sid) \o ".0"
                    ELSE IF j = 3 /\ kind = "bad" THEN "n/a"
                    ELSE DevToken(sid, fields, j)]
    IN  Join((IF kind = "cut" THEN SubSeq(toks, 1, 2) ELSE toks), " ")

\* layouts of two data rows over each field list
DeviceTi2s ==
    { Ti2Text(<<>>, fields, <<DevRow(1, fields, k1), DevRow(2, fields, k2)>>) :
        fields \in DeviceFieldLists, k1 \in DevRowKinds, k2 \in DevRowKinds }

\* CSV files of two records with every group of values, with Lab only, with
\* XYZ only, and a file without records
GroupCsvs ==
    { CsvText([i \in 1..2 |-> CsvDataLine(i, "full", "full", {400, 500}, "D50/2")]),
      CsvText([i \in 1..2 |-> CsvDataLine(i, "full", "none", {}, "")]),
      CsvText([i \in 1..2 |-> CsvDataLine(i, "none", "full", {}, "")]),
      CsvText(<<>>) }

\* header lines that place the Lab columns differently, with and without X Y Z
HeaderOrders ==
    { <<"L", "a", "b", "Name">>, <<"Name", "L", "a", "b">>,
      <<"Lstar", "Name", "astar", "bstar">>, <<"a*", "L*", "b*", "Name">>,
      <<"b", "Name", "L", "a">>, <<"L*", "a*", "b*", "X", "Y", "Z", "Name">>,
      <<"Name", "X", "Y", "Z">> }

\* the cell of data line i under the header cell h
HeaderCell(h, i) ==
    CASE h \in {"L", "L*", "Lstar"} -> LabCells("full", i)[1]
      [] h \in {"a", "a*", "astar"} -> LabCells("full", i)[2]
      [] h \in {"b", "b*", "bstar"} -> LabCells("full", i)[3]
      [] h = "X" -> XyzCells("full", i)[1]
      [] h = "Y" -> XyzCells("full", i)[2]
      [] h = "Z" -> XyzCells("full", i)[3]
      [] OTHER -> "P" \o IntStr(i)

\* CSV files whose header places the columns in each of those orders
HeaderCsvs ==
    { Join(<<Join(h, ";")>>
           \o [i \in 1..k |-> Join([j \in 1..Len(h) |-> HeaderCell(h[j], i)], ";")], "\n") :
        h \in HeaderOrders, k \in 1..MaxCsvRows }

\* texts of the Light Source/Angle cell: empty, two that match the pattern,
\* one with text after the match, and two that do not match
LsagTexts == {"", "D65/10", "d50 / 2", "f11/10 deg", "x/y", " A/2"}

\* CSV files of three data lines: the Light Source/Angle cell of each varies,
\* and each line has its Lab values or has neither L nor X
IllumCsvs ==
    { CsvText([i \in 1..3 |-> CsvDataLine(i, (IF i \in kept THEN "full" ELSE "none"), "none", {}, f[i])]) :
        f \in [1..3 -> LsagTexts], kept \in {{1, 2, 3}, {2, 3}, {1, 3}, {3}} }

\* four data lines, one of which (line k) has neither L nor X
EndToEndCsvs ==
    { CsvText([i \in 1..4 |-> ColorLine(i, IF i = k THEN bad ELSE good)]) :
        k \in 1..4,
        bad \in {<<"none", "none">>, <<"bad", "bad">>, <<"short">>},
        good \in {<<"full", "full">>, <<"full", "none">>, <<"none", "full">>} }

\* four samples on a 2 x 2 grid, strip-then-patch, without a SAMPLE_LOC column
EndToEndTi2s ==
    { Ti2Text(GridHeader(<<"2">>, <<"2">>, o), PlainFields,
              [i \in 1..4 |-> Ti2Row((IF desc THEN 5 - i ELSE i), <<>>)]) :
        o \in {<<"STRIP_THEN_PATCH">>, <<"strip_then_patch">>}, desc \in BOOLEAN }

\* no call of row_label is under way
LabelIdle ==
    /\ rl_pc = "idle"
    /\ rl_idx0 = 0
    /\ rl_i = 0
    /\ rl_s = ""

\* nothing has been read or written yet
NothingRead ==
    /\ lines = <<>>
    /\ idx = NoColumns
    /\ pos = 0
    /\ rows = <<>>
    /\ illum_code = NoneVal
    /\ observer = NoneVal
    /\ ti2 = NoneVal
    /\ ti1 = NoneVal
    /\ out = NoneVal

\* a run of build_profile.main: the two input files (<<>> for a path that
\* names no file) and whether the directory of the output exists
InitRun(csv, layout, dir) ==
    /\ pc = "resolve_output"
    /\ csvFile = csv
    /\ ti2File = layout
    /\ out_dir = dir
    /\ args = NoneVal
    /\ ti1File = NoneVal
    /\ NothingRead
    /\ LabelIdle

InitWith(csv, layout) == InitRun(csv, layout, TRUE)

\* the colorimetric make-up of the CSV lines varies, over plain layouts
InitColor ==
    \E csv \in ColorCsvs, n \in 0..MaxSamples : InitWith(Some(csv), Some(PlainTi2(n)))

\* the spectral make-up of the CSV lines varies
InitSpectral ==
    \E csv \in SpectralCsvs, n \in 1..MaxSamples : InitWith(Some(csv), Some(PlainTi2(n)))

\* the grid keys of the layout header vary
InitGrid ==
    \E layout \in GridTi2s : InitWith(Some(PlainCsv(MaxSamples)), Some(layout))

\* the explicit locations of the layout vary
InitLoc ==
    \E layout \in LocTi2s, k \in 0..MaxCsvRows : InitWith(Some(PlainCsv(k)), Some(layout))

\* the end-to-end scenario: three measured lines and one without L and X,
\* against four samples on a declared 2 x 2 grid
InitEndToEnd ==
    \E csv \in EndToEndCsvs, layout \in EndToEndTi2s, dir \in BOOLEAN :
        InitRun(Some(csv), Some(layout), dir)

\* the data-format block of the layout varies
InitFormat ==
    \E layout \in FormatTi2s, k \in 0..MaxCsvRows, dir \in BOOLEAN :
        InitRun(Some(PlainCsv(k)), Some(layout), dir)

\* the CSV holds no data line
InitEmpty ==
    \E csv \in EmptyCsvs, n \in 0..MaxSamples, dir \in BOOLEAN :
        InitRun(Some(csv), Some(PlainTi2(n)), dir)

\* the declared fields and the data rows of the layout vary
InitDevice ==
    \E layout \in DeviceTi2s, csv \in GroupCsvs : InitWith(Some(csv), Some(layout))

\* the order of the columns of the CSV varies
InitHeader ==
    \E csv \in HeaderCsvs, n \in 1..MaxSamples : InitWith(Some(csv), Some(PlainTi2(n)))

\* the file order of the layout rows varies
InitOrder ==
    \E layout \in OrderTi2s, k \in 2..3 : InitWith(Some(PlainCsv(k)), Some(layout))

\* the Light Source/Angle cells of the CSV vary
InitIllum ==
    \E csv \in IllumCsvs : InitWith(Some(csv), Some(PlainTi2(1)))

\* a path of the configuration names no file
InitMissing ==
    \E csv \in {NoneVal, Some(PlainCsv(1))}, layout \in {NoneVal, Some(PlainTi2(1))},
       dir \in BOOLEAN :
        /\ IsNone(csv) \/ IsNone(layout)
        /\ InitRun(csv, layout, dir)

Init ==
    \/ InitMissing
    \/ InitDevice
    \/ InitColor
    \/ InitSpectral
    \/ InitGrid
    \/ InitLoc
    \/ InitEndToEnd
    \/ InitFormat
    \/ InitEmpty
    \/ InitHeader
    \/ InitOrder
    \/ InitIllum

Spec == Init /\ [][Next]_vars

(***************************************************************************)
(* row_label, turn by turn.  The function is local to parse_ti2; a call is  *)
(* followed on its own, for every idx0 up to MaxRowIndex.                    *)
(***************************************************************************)
MaxRowIndex == 730

\* each letter is appended where the code prepends it
RowLabelAppended(i, s) == s \o Ch(UpperStr, (i % 26) + 1)

\* s = chr(ord('A') + (i % 26)) + s
RowLabelS(i, s) == Ch(UpperStr, (i % 26) + 1) \o s

\* i = i // 26 - 1
RowLabelI(i) == (i \div 26) - 1

\* one turn of `while True`: the letter, the next i, and the break when i < 0
RowLabelTurn ==
    /\ rl_pc = "while"
    /\ rl_s' = RowLabelS(rl_i, rl_s)
    /\ rl_i' = RowLabelI(rl_i)
    /\ rl_pc' = IF RowLabelI(rl_i) < 0 THEN "return" ELSE "while"
    /\ UNCHANGED <<rl_idx0, pc, csvFile, ti2File, lines, idx, pos, rows, illum_code,
                   observer, ti2, out, out_dir, cr30Vars>>

\* row_label(idx0) has been called: s = '', i = idx0
InitRowLabel ==
    /\ pc = "idle"
    /\ csvFile = NoneVal
    /\ ti2File = NoneVal
    /\ out_dir = FALSE
    /\ args = NoneVal
    /\ ti1File = NoneVal
    /\ NothingRead
    /\ rl_pc = "while"
    /\ rl_idx0 \in 0..MaxRowIndex
    /\ rl_i = rl_idx0
    /\ rl_s = ""

NextRowLabel == RowLabelTurn

\* the call runs on until it returns
SpecRowLabel == InitRowLabel /\ [][NextRowLabel]_vars /\ WF_vars(RowLabelTurn)

(***************************************************************************)
(* cr30_to_ti3, the sibling converter: main() calls parse_cr30_csv (the     *)
(* same code as in build_profile), parse_ti1 and its own write_ti3.         *)
(***************************************************************************)
\* ti1 = parse_ti1(args.ti1): raise ValueError when the data-format block is missing
Ti1Return(ls) ==
    IF MissingFormatBlock(ls)
    THEN /\ pc' = "raised"
         /\ UNCHANGED ti1
    ELSE /\ pc' = "cr30_write_ti3"
         /\ ti1' = Some(Ti1Parsed(ls))

ParseTi1 ==
    /\ pc = "parse_ti1"
    /\ Ti1Return(Ti2Lines(Val(ti1File)))
    /\ UNCHANGED <<csvFile, ti2File, lines, idx, pos, rows, illum_code, observer, ti2, out>>
    /\ UNCHANGED <<out_dir, args, ti1File, labelVars>>

\* write_ti3(...): the directory of the output is made when missing, then the file
Cr30WriteTi3 ==
    /\ pc = "cr30_write_ti3"
    /\ pc' = "done"
    /\ out_dir' = TRUE
    /\ out' = Some(Cr30Ti3File(Val(ti1).device_fields, Val(ti1).device_values, rows,
                               Val(args).prefer_spectral, Val(args).prefer_xyz_over_lab))
    /\ UNCHANGED <<csvFile, ti2File, lines, idx, pos, rows, illum_code, observer, ti2>>
    /\ UNCHANGED <<cr30Vars, labelVars>>

\* CSV files of two records of which the first has Lab only and the second
\* has XYZ only, or XYZ and Lab, or spectral values as well
MixedCsvs ==
    { CsvText(<<CsvDataLine(1, "full", "none", {}, ""), CsvDataLine(2, l2, "full", b2, "")>>) :
        l2 \in {"none", "full", "Lonly"}, b2 \in {{}, {400, 500}} }

\* ti1 files: the samples in descending order of id, with RGB or CMYK fields
Ti1Files ==
    { Ti2Text(<<>>, fields, [i \in 1..n |-> DevRow(n + 1 - i, fields, "full")]) :
        fields \in {PlainFields, <<"SAMPLE_ID", "CMYK_C", "CMYK_M", "CMYK_Y", "CMYK_K">>},
        n \in 0..MaxSamples }
    \cup { Ti2TextAround(<<Join(PlainFields, " "), "END_DATA_FORMAT">>, <<Ti2Row(1, <<>>)>>) }

\* the command line: --no-prefer-spectral and --prefer-lab given or not
Cr30Args == [prefer_spectral : BOOLEAN, prefer_xyz_over_lab : BOOLEAN]

\* a run of cr30_to_ti3.main: the parsed arguments, the CSV and the ti1 file
InitCr30 ==
    \E csv \in GroupCsvs \cup MixedCsvs, t \in Ti1Files, a \in Cr30Args, dir \in BOOLEAN :
        /\ pc = "parse_cr30_csv"
        /\ csvFile = Some(csv)
        /\ ti2File = NoneVal
        /\ ti1File = Some(t)
        /\ args = Some(a)
        /\ out_dir = dir
        /\ NothingRead
        /\ LabelIdle

NextCr30 == CsvHeader \/ CsvRow \/ CsvReturn \/ ParseTi1 \/ Cr30WriteTi3

SpecCr30 == InitCr30 /\ [][NextCr30]_vars

(***************************************************************************)
(* Reading the written file back, and the points of a run                  *)
(***************************************************************************)
\* parse_ti2 has returned its result
Parsed == pc \in {"write_ti3", "done"}

\* write_ti3 has written the file
Written == pc = "done"

device_fields == Val(ti2).device_fields
device_values == Val(ti2).device_values
sample_locs == Val(ti2).sample_locs

\* the declared fields of the written file, and the cells of its data row i
WrittenFields == Tokens(Val(out).format)
WrittenCells(i) == Tokens(Val(out).data[i])

\* the cell of field f among the cells cs of a data row whose fields are fs
CellOf(fs, cs, f) == cs[IndexOf(fs, f) + 1]

\* the cells of the fields gs, in that order
CellsOf(fs, cs, gs) == [k \in 1..Len(gs) |-> CellOf(fs, cs, gs[k])]

XyzFields == <<"XYZ_X", "XYZ_Y", "XYZ_Z">>
LabFields == <<"LAB_L", "LAB_A", "LAB_B">>

\* the SPEC_ fields among fs, as wavelengths, in the order declared
SpecBands(fs) ==
    LET spec == [k \in 1..Len(fs) |-> StartsWith(fs[k], "SPEC_")]
        names == Keep(fs, spec)
    IN  [k \in 1..Len(names) |-> DigitsVal(SubSeq(names[k], 6, Len(names[k])))]

\* the number of the data line a record was read from, which its name carries
RecordLine(row) == DigitsVal(Tail(row.name))

\* min(count of device samples, count of accepted measurement records)
PairCount ==
    IF Len(device_values) <= Len(rows) THEN Len(device_values) ELSE Len(rows)

(***************************************************************************)
(* C1                                                                      *)
(***************************************************************************)
\* data row `cs` (fields fs) is device sample `sample` paired with record `row`
C1_RowPairs(fs, cs, sample, row) ==
    /\ CellOf(fs, cs, "SAMPLE_ID") = IntStr(sample[1])
    /\ CellsOf(fs, cs, device_fields) = [k \in 1..Len(device_fields) |-> Fixed(sample[2][k], 5)]
    /\ InSeq("XYZ_X", fs) => CellsOf(fs, cs, XyzFields) = XyzTokens(row)
    /\ InSeq("LAB_L", fs) => CellsOf(fs, cs, LabFields) = LabTokens(row)

\* C1: the written file declares NUMBER_OF_SETS N and has exactly N data rows,
\* N = min(device samples, accepted records); the device samples are in
\* non-decreasing order of their ids, and data row i carries the id and the device
\* values of the i-th of them with the colorimetric values of the i-th
\* accepted record, in file order.
C1_Pairing ==
    Written =>
        /\ Val(out).number_of_sets = PairCount
        /\ Len(Val(out).data) = PairCount
        /\ \A i \in 1..(Len(device_values) - 1) : device_values[i][1] <= device_values[i + 1][1]
        /\ \A i \in 1..(Len(rows) - 1) : RecordLine(rows[i]) < RecordLine(rows[i + 1])
        /\ \A i \in 1..PairCount :
              C1_RowPairs(WrittenFields, WrittenCells(i), device_values[i], rows[i])

\* three samples are paired with two records: two data rows are written
C1_Witness ==
    /\ Written
    /\ Len(device_values) = 3
    /\ Len(rows) = 2
    /\ Len(Val(out).data) = 2

(***************************************************************************)
(* C2                                                                      *)
(***************************************************************************)
\* C2: rows beyond N are never referenced: the written file is the file
\* write_ti3 writes for the first N device samples and the first N accepted
\* records alone (same field list, same header flags and tags, same data rows).
C2_RowsBeyondUnused ==
    Written =>
        Val(out) = Ti3File(device_fields, SubSeq(device_values, 1, PairCount),
                           SubSeq(rows, 1, PairCount), sample_locs, Val(ti2).header_lines)

(***************************************************************************)
(* C3                                                                      *)
(***************************************************************************)
\* the loop of parse_cr30_csv is running or has run
CsvLoop == pc \in {"csv_rows", "parse_ti2", "write_ti3", "done"}

\* the cells `parts` of a data line hold a parsed L or a parsed X
HoldsLorX(parts) ==
    ~IsNone(FloatCell(parts, idx.idx_L)) \/ ~IsNone(FloatCell(parts, idx.idx_X))

\* the data lines handled so far that are not blank, by number
NonBlankLines == {k \in 1..pos : ~IsBlank(lines[k + 1])}

\* those of them whose parsed L or parsed X is present
LinesWithLorX == {k \in NonBlankLines : HoldsLorX(Split(lines[k + 1], ";"))}

\* the records are the lines `kept`, in file order, each with L or X present,
\* and are fewer than the lines `nonBlank` when `kept` is not all of them
C3_RecordsAre(kept, nonBlank) ==
    /\ Len(rows) = Cardinality(kept)
    /\ {RecordLine(rows[i]) : i \in 1..Len(rows)} = kept
    /\ \A i \in 1..Len(rows) : ~IsNone(rows[i].L) \/ ~IsNone(rows[i].X)
    /\ kept # nonBlank => Len(rows) < Cardinality(nonBlank)

\* C3: of the non-blank data lines handled, exactly those whose parsed L or
\* parsed X is present are records, in file order; every record has L or X
\* present, and there are strictly fewer records than non-blank data lines
\* whenever a line has neither.
C3_AcceptedIffLorX ==
    CsvLoop => C3_RecordsAre(LinesWithLorX, NonBlankLines)

\* a file of two non-blank data lines, one with neither L nor X, gave one record
C3_Witness ==
    /\ pc = "parse_ti2"
    /\ Cardinality(NonBlankLines) = 2
    /\ Cardinality(LinesWithLorX) = 1
    /\ Len(rows) = 1

(***************************************************************************)
(* C4                                                                      *)
(***************************************************************************)
\* the wavelength sets of the records whose spectral map is not empty
BandSets == {DOMAIN rows[i].spectral : i \in 1..Len(rows)} \ {{}}

\* the wavelengths every one of those sets holds
CommonBands == {wl \in UNION BandSets : \A S \in BandSets : wl \in S}

\* the cells cs (fields fs) of a data row are zero at every SPEC_ field
C4_ZeroBands(fs, cs) ==
    \A k \in 1..Len(fs) : StartsWith(fs[k], "SPEC_") => cs[k] = "0.000000"

\* the SPEC_ fields fs declares are the wavelengths of `common`, ascending
C4_BandsAre(fs, common) ==
    LET bands == SpecBands(fs)
    IN  /\ {bands[k] : k \in 1..Len(bands)} = common
        /\ \A k \in 1..(Len(bands) - 1) : bands[k] < bands[k + 1]
        /\ \A k \in 1..Len(bands) : InSeq("SPEC_" \o Pad3(bands[k]), fs)

\* C4: the SPEC_ fields of the written file are the intersection of the
\* wavelength sets of all records with a non-empty spectral map, in ascending
\* order; a record with an empty map does not shrink it, and its data row is
\* zero at every band.  Records with {400,500} and {400,500,600} give 400, 500.
C4_BandIntersection ==
    Written =>
        /\ C4_BandsAre(WrittenFields, CommonBands)
        /\ \A i \in 1..PairCount :
              DOMAIN rows[i].spectral = {} => C4_ZeroBands(WrittenFields, WrittenCells(i))
        /\ BandSets = {{400, 500}, {400, 500, 600}} => SpecBands(WrittenFields) = <<400, 500>>

\* records with no bands, with {400,500} and with {400,500,600}: the file
\* declares SPEC_400 and SPEC_500, and the row of the first record is zero there
C4_Witness ==
    /\ Written
    /\ Len(rows) = 3
    /\ DOMAIN rows[1].spectral = {}
    /\ DOMAIN rows[2].spectral = {400, 500}
    /\ DOMAIN rows[3].spectral = {400, 500, 600}
    /\ PairCount = 2
    /\ SpecBands(WrittenFields) = <<400, 500>>
    /\ CellsOf(WrittenFields, WrittenCells(1), <<"SPEC_400", "SPEC_500">>) = <<"0.000000", "0.000000">>

(***************************************************************************)
(* C5                                                                      *)
(***************************************************************************)
\* the three parsed values vs are all present
Complete(vs) == \A k \in 1..3 : ~IsNone(vs[k])

XyzOf(row) == <<row.X, row.Y, row.Z>>
LabOf(row) == <<row.L, row.a, row.b>>

\* the three cells cs, read back as numbers, are the parsed values vs when
\* those are complete, and are three zeros otherwise
C5_SameNumbers(cs, vs) ==
    IF Complete(vs) THEN [k \in 1..3 |-> PyFloat(cs[k])] = vs
    ELSE [k \in 1..3 |-> PyFloat(cs[k])] = <<Some(0), Some(0), Some(0)>>

\* the three cells cs are the parsed values vs printed with prec decimals
\* when those are complete, and are three zeros otherwise
C5_Printed(cs, vs, prec) ==
    IF Complete(vs) THEN cs = [k \in 1..3 |-> Fixed(Val(vs[k]), prec)]
    ELSE cs = [k \in 1..3 |-> Fixed(0, prec)]

\* the claim as stated: for every written row and every included group, the
\* three written values are exactly the row's own three parsed values when
\* all three are present, and three zeros otherwise
C5_WrittenExactly ==
    Written =>
        \A i \in 1..PairCount :
            /\ InSeq("XYZ_X", WrittenFields) =>
                  C5_SameNumbers(CellsOf(WrittenFields, WrittenCells(i), XyzFields), XyzOf(rows[i]))
            /\ InSeq("LAB_L", WrittenFields) =>
                  C5_SameNumbers(CellsOf(WrittenFields, WrittenCells(i), LabFields), LabOf(rows[i]))

\* C5: for every written row and every included group (XYZ, Lab), the three
\* written values are the row's own three parsed values, printed with six
\* decimals (XYZ) or rounded to two decimals (Lab), when all three are
\* present, and three zeros otherwise; no value of one group comes from the
\* other group, even when that one is complete on the row.
C5_PassThrough ==
    Written =>
        \A i \in 1..PairCount :
            /\ InSeq("XYZ_X", WrittenFields) =>
                  C5_Printed(CellsOf(WrittenFields, WrittenCells(i), XyzFields), XyzOf(rows[i]), 6)
            /\ InSeq("LAB_L", WrittenFields) =>
                  C5_Printed(CellsOf(WrittenFields, WrittenCells(i), LabFields), LabOf(rows[i]), 2)

\* both groups are written; the first record has both complete, the second
\* has a complete Lab and no XYZ, and its XYZ cells are zeros
C5_Witness ==
    /\ Written
    /\ PairCount = 2
    /\ Complete(XyzOf(rows[1])) /\ Complete(LabOf(rows[1]))
    /\ Complete(LabOf(rows[2])) /\ ~Complete(XyzOf(rows[2]))
    /\ CellsOf(WrittenFields, WrittenCells(2), XyzFields) = <<"0.000000", "0.000000", "0.000000">>
    /\ CellsOf(WrittenFields, WrittenCells(2), LabFields) = <<"52.13", "-2.00", "12.50">>

(***************************************************************************)
(* C6                                                                      *)
(***************************************************************************)
\* every field of gs is declared in fs
Declares(fs, gs) == \A k \in 1..Len(gs) : InSeq(gs[k], fs)

\* C6: the XYZ fields are declared whenever some retained record (one of the
\* first N) has a complete X, Y, Z, and the Lab fields are declared whenever
\* some retained record has a complete L, a, b; both are declared when both hold.
C6_GroupsIncluded ==
    Written =>
        /\ (\E i \in 1..PairCount : Complete(XyzOf(rows[i]))) => Declares(WrittenFields, XyzFields)
        /\ (\E i \in 1..PairCount : Complete(LabOf(rows[i]))) => Declares(WrittenFields, LabFields)

\* the complete XYZ is on the second retained record only, the complete Lab
\* on the first only, and both groups are declared
C6_Witness ==
    /\ Written
    /\ PairCount = 2
    /\ ~Complete(XyzOf(rows[1])) /\ Complete(XyzOf(rows[2]))
    /\ Complete(LabOf(rows[1])) /\ ~Complete(LabOf(rows[2]))
    /\ Declares(WrittenFields, XyzFields \o LabFields)

(***************************************************************************)
(* C7                                                                      *)
(***************************************************************************)
\* SAMPLE_LOC is declared and data row i holds the quoted label of entry i of
\* the location table, for every one of the N data rows
C7_AllLocated ==
    /\ InSeq("SAMPLE_LOC", WrittenFields)
    /\ \A i \in 1..PairCount :
          CellOf(WrittenFields, WrittenCells(i), "SAMPLE_LOC") = "\"" \o sample_locs[i][2] \o "\""

\* SAMPLE_LOC is not declared and no data row holds a location token
C7_NoneLocated ==
    /\ ~InSeq("SAMPLE_LOC", WrittenFields)
    /\ \A i \in 1..PairCount :
          /\ Len(WrittenCells(i)) = Len(WrittenFields)
          /\ \A k \in 1..Len(WrittenCells(i)) : Ch(WrittenCells(i)[k], 1) # "\""

\* the claim as stated: locations are written on every row if the location
\* table has at least N entries, and on no row otherwise, for every N
\* including N = 0 and for an empty table
C7_AtLeastN ==
    Written => IF Len(sample_locs) >= PairCount THEN C7_AllLocated ELSE C7_NoneLocated

\* C7: locations are all-or-nothing: SAMPLE_LOC is declared and a location
\* token is written on every one of the N data rows if the location table is
\* not empty and has at least N entries, and otherwise SAMPLE_LOC is not
\* declared and no row has a location token; this holds for every N
\* including N = 0.
C7_AllOrNothing ==
    Written =>
        IF sample_locs # <<>> /\ Len(sample_locs) >= PairCount
        THEN C7_AllLocated
        ELSE C7_NoneLocated

\* a table of one label for two data rows: no location is written
C7_Witness ==
    /\ Written
    /\ Len(sample_locs) = 1
    /\ PairCount = 2
    /\ C7_NoneLocated

(***************************************************************************)
(* C8                                                                      *)
(***************************************************************************)
\* the (sid, label) pairs the SAMPLE_LOC column of the layout of lines ls gives
FileLocsOf(ls) ==
    SampleLocsRead(SampleRows(ls),
                   LocIndex(FormatFields(ls, Val(FmtStart(ls)), Val(FmtEnd(ls)))))

FileLocs == FileLocsOf(Ti2Lines(Val(ti2File)))

\* the grid the header of the parsed layout declares
HeaderGrid == GridSize(HeaderMap(Val(ti2).header_lines))

\* when the file gave the pairs `read`, the returned table is those pairs and
\* nothing else, each label being the one the file has for that sample
C8_OnlyFileLabels(read) ==
    read # <<>> =>
        /\ Len(sample_locs) = Len(read)
        /\ {sample_locs[i] : i \in 1..Len(sample_locs)} = {read[i] : i \in 1..Len(read)}
        /\ \A i \in 1..Len(sample_locs) :
              sample_locs[i][2] = "q" \o IntStr(sample_locs[i][1])

\* C8: whenever parse_ti2 captured at least one location from the layout's
\* SAMPLE_LOC column, the returned location table holds only the labels read
\* from the file (one layer of double quotes removed) and no label made from
\* the grid keys, even when those are present and consistent.
C8_ExplicitWins == Parsed => C8_OnlyFileLabels(FileLocs)

\* the header declares a 2 x 1 grid for the two samples, and the table holds
\* the two labels of the file
C8_Witness ==
    /\ Parsed
    /\ HeaderGrid = <<Some(2), Some(1)>>
    /\ Len(device_values) = 2
    /\ sample_locs = << <<1, "q1">>, <<2, "q2">> >>

(***************************************************************************)
(* C9                                                                      *)
(***************************************************************************)
\* the text the header of the parsed layout gives for a key, <<>> when it has none
HeaderText(key) == HeaderGet(HeaderMap(Val(ti2).header_lines), key)

\* the layout has no location of its own: the table is the derived one
Underived == Parsed /\ FileLocs = <<>>

\* both counts of the grid g are present and positive and their product is n
C9_GridFits(g, n) ==
    /\ ~IsNone(g[1]) /\ ~IsNone(g[2])
    /\ Val(g[1]) > 0 /\ Val(g[2]) > 0
    /\ Val(g[1]) * Val(g[2]) = n

\* C9: for a layout without explicit locations, labels are produced (one per
\* device sample) if and only if STEPS_IN_PASS and PASSES_IN_STRIPS2 are both
\* present, both positive once read as integers (a floating-point spelling
\* such as 2.0 is read as 2), and their product equals the number of device
\* samples; with a key missing, unparsable, zero or negative, or with another
\* product, the table is empty; and parse_ti2 raises no error.
C9_DerivesIffGridFits ==
    /\ Underived =>
          /\ sample_locs # <<>> <=> C9_GridFits(HeaderGrid, Len(device_values))
          /\ sample_locs # <<>> => Len(sample_locs) = Len(device_values)
          /\ HeaderText("STEPS_IN_PASS") \in {<<>>, <<"x">>, <<"0">>, <<"-2">>} => sample_locs = <<>>
          /\ HeaderText("PASSES_IN_STRIPS2") \in {<<>>, <<"x">>, <<"0">>} => sample_locs = <<>>
    /\ pc = "raised" => MissingFormatBlock(Ti2Lines(Val(ti2File)))

\* STEPS_IN_PASS "2.0" and PASSES_IN_STRIPS2 3 over six samples: six labels
C9_Witness ==
    /\ Underived
    /\ HeaderText("STEPS_IN_PASS") = <<"2.0">>
    /\ HeaderText("PASSES_IN_STRIPS2") = <<"3">>
    /\ Len(device_values) = 6
    /\ Len(sample_locs) = 6

(***************************************************************************)
(* C10                                                                     *)
(***************************************************************************)
\* INDEX_ORDER names the patch-then-strip traversal, in any letter case
C10_PatchThenStrip ==
    HeaderText("INDEX_ORDER") \in {<<"PATCH_THEN_STRIP">>, <<"Patch_Then_Strip">>}

\* the letter of row r, for the first 26 rows
C10_RowLetter(r) == Ch(UpperStr, r + 1)

\* the label of positional index i (from 0) on a grid of c columns and r rows
C10_Label(i, c, r) ==
    IF C10_PatchThenStrip
    THEN C10_RowLetter(i % r) \o IntStr((i \div r) + 1)
    ELSE C10_RowLetter(i \div c) \o IntStr((i % c) + 1)

\* C10: when labels are derived over N = columns * rows samples, the label
\* at positional index i is rowLabel(i div columns) followed by
\* (i mod columns) + 1 for STRIP_THEN_PATCH (in any letter case) and for any
\* other or missing INDEX_ORDER, and rowLabel(i mod rows) followed by
\* (i div rows) + 1 for PATCH_THEN_STRIP; each label is paired with the id of
\* the device sample at index i after the sort by id.  With 2 columns, 3
\* rows, STRIP_THEN_PATCH and ids 1..6 the labels are A1, A2, B1, B2, C1, C2.
C10_DerivedLabels ==
    (Underived /\ sample_locs # <<>>) =>
        /\ \A i \in 1..Len(sample_locs) :
              sample_locs[i] = <<device_values[i][1],
                                 C10_Label(i - 1, Val(HeaderGrid[1]), Val(HeaderGrid[2]))>>
        /\ \A i \in 1..(Len(device_values) - 1) : device_values[i][1] < device_values[i + 1][1]
        /\ (/\ HeaderGrid = <<Some(2), Some(3)>>
            /\ HeaderText("INDEX_ORDER") = <<"STRIP_THEN_PATCH">>) =>
              sample_locs = << <<1, "A1">>, <<2, "A2">>, <<3, "B1">>,
                               <<4, "B2">>, <<5, "C1">>, <<6, "C2">> >>

\* 2 columns, 3 rows, patch-then-strip, six samples listed in descending order
\* of id in the file: the labels run down the rows first
C10_Witness ==
    /\ Underived
    /\ HeaderGrid = <<Some(2), Some(3)>>
    /\ HeaderText("INDEX_ORDER") = <<"Patch_Then_Strip">>
    /\ sample_locs = << <<1, "A1">>, <<2, "B1">>, <<3, "C1">>,
                        <<4, "A2">>, <<5, "B2">>, <<6, "C2">> >>

(***************************************************************************)
(* C11                                                                     *)
(***************************************************************************)
\* the place of an upper-case letter in the alphabet, 1 for A
C11_LetterPlace(c) == CHOOSE k \in 1..26 : Ch(UpperStr, k) = c

\* the number a label stands for in bijective base 26, A = 1, Z = 26, AA = 27
RECURSIVE C11_Number(_)
C11_Number(s) ==
    IF s = "" THEN 0
    ELSE C11_Number(SubSeq(s, 1, Len(s) - 1)) * 26 + C11_LetterPlace(Ch(s, Len(s)))

\* the labels the claim names
C11_Examples ==
    /\ rl_idx0 = 0 => rl_s = "A"
    /\ rl_idx0 = 25 => rl_s = "Z"
    /\ rl_idx0 = 26 => rl_s = "AA"
    /\ rl_idx0 = 27 => rl_s = "AB"
    /\ rl_idx0 = 701 => rl_s = "ZZ"
    /\ rl_idx0 = 702 => rl_s = "AAA"

\* the returned label is made of upper-case letters and stands for idx0 + 1:
\* the index is recovered from the label, so two indices never share a label
C11_Returned ==
    rl_pc = "return" =>
        /\ C11_Examples
        /\ AllIn(rl_s, UpperSet)
        /\ C11_Number(rl_s) = rl_idx0 + 1
        /\ rl_s = row_label(rl_idx0)

\* C11: row_label is the bijective base-26 letter encoding of a zero-based
\* index (0 -> A, 25 -> Z, 26 -> AA, 27 -> AB, 701 -> ZZ, 702 -> AAA); the
\* index can be read back from the label, so distinct indices have distinct
\* labels; and the loop ends for every non-negative index.
C11_RowLabel == [](C11_Returned) /\ <>(rl_pc = "return")

\* the call for index 702 has returned AAA after three turns
C11_Witness ==
    /\ rl_pc = "return"
    /\ rl_idx0 = 702
    /\ rl_s = "AAA"

(***************************************************************************)
(* C12                                                                     *)
(***************************************************************************)
\* the scenario: a CSV of four non-blank data lines of which three are
\* records, a layout of four samples that declares no SAMPLE_LOC field and
\* whose header gives 2 columns, 2 rows and the strip-then-patch order
C12_Scenario ==
    /\ Written
    /\ Len(lines) = 5
    /\ Cardinality(NonBlankLines) = 4
    /\ Len(rows) = 3
    /\ Len(device_values) = 4
    /\ IsNone(LocIndex(FormatFields(Ti2Lines(Val(ti2File)),
                                    Val(FmtStart(Ti2Lines(Val(ti2File)))),
                                    Val(FmtEnd(Ti2Lines(Val(ti2File)))))))
    /\ HeaderGrid = <<Some(2), Some(2)>>
    /\ HeaderText("INDEX_ORDER") \in {<<"STRIP_THEN_PATCH">>, <<"strip_then_patch">>}

\* the location tokens of the data rows of the written file, in row order
C12_WrittenLocs ==
    [i \in 1..Len(Val(out).data) |-> CellOf(WrittenFields, WrittenCells(i), "SAMPLE_LOC")]

\* C12: in the end-to-end scenario (3 valid CSV rows and 1 row without L and
\* X, 4 device samples, no SAMPLE_LOC field, header 2 x 2 strip-then-patch)
\* the written file has exactly 3 data rows, declares SAMPLE_LOC, and the
\* labels of the three rows are A1, A2, B1 in that order.
C12_EndToEnd ==
    C12_Scenario =>
        /\ Val(out).number_of_sets = 3
        /\ Len(Val(out).data) = 3
        /\ InSeq("SAMPLE_LOC", WrittenFields)
        /\ C12_WrittenLocs = <<"\"A1\"", "\"A2\"", "\"B1\"">>

\* the scenario with the second data line rejected and the samples listed in
\* descending order of id in the layout: rows 1, 2, 3 carry samples 1, 2, 3
\* with the records of lines 1, 3, 4 and the labels A1, A2, B1
C12_Witness ==
    /\ C12_Scenario
    /\ [i \in 1..3 |-> RecordLine(rows[i])] = <<1, 3, 4>>
    /\ [i \in 1..3 |-> CellOf(WrittenFields, WrittenCells(i), "SAMPLE_ID")] = <<"1", "2", "3">>
    /\ FirstLine(Ti2Lines(Val(ti2File)), Ti2Row(4, <<>>), 1)
          < FirstLine(Ti2Lines(Val(ti2File)), Ti2Row(1, <<>>), 1)
    /\ C12_WrittenLocs = <<"\"A1\"", "\"A2\"", "\"B1\"">>

(***************************************************************************)
(* C13                                                                     *)
(***************************************************************************)
\* the places of the lines of ls that are the marker, surrounding blanks aside
C13_Places(ls, marker) == {i \in 1..Len(ls) : Strip(ls[i]) = marker}

\* the layout lacks a complete data-format block: no BEGIN_DATA_FORMAT line,
\* no END_DATA_FORMAT line, or an END_DATA_FORMAT line before every
\* BEGIN_DATA_FORMAT line
C13_LacksBlock(ls) ==
    LET b == C13_Places(ls, "BEGIN_DATA_FORMAT")
        e == C13_Places(ls, "END_DATA_FORMAT")
    IN  \/ b = {}
        \/ e = {}
        \/ \E j \in e : \A i \in b : j < i

C13_Malformed == ~IsNone(ti2File) /\ C13_LacksBlock(Ti2Lines(Val(ti2File)))

\* with such a layout nothing is returned by parse_ti2, write_ti3 is not
\* reached and there is no output file
C13_NothingWritten ==
    C13_Malformed =>
        /\ pc \notin {"write_ti3", "done"}
        /\ IsNone(ti2)
        /\ IsNone(out)

\* C13: a layout lacking a complete data-format block (no BEGIN_DATA_FORMAT,
\* no END_DATA_FORMAT, or END_DATA_FORMAT before any BEGIN_DATA_FORMAT) makes
\* the call of parse_ti2 raise, and in the run of main the output file is
\* never written: write_ti3 is not reached.
C13_MalformedRaises ==
    /\ [](C13_NothingWritten)
    /\ [][(pc = "parse_ti2" /\ C13_Malformed) => pc' = "raised"]_vars

\* END_DATA_FORMAT comes before BEGIN_DATA_FORMAT: the CSV was parsed into
\* two records, parse_ti2 raised, and there is no output
C13_Witness ==
    /\ pc = "raised"
    /\ Len(rows) = 2
    /\ C13_Places(Ti2Lines(Val(ti2File)), "BEGIN_DATA_FORMAT") # {}
    /\ C13_Places(Ti2Lines(Val(ti2File)), "END_DATA_FORMAT") # {}
    /\ C13_Malformed
    /\ IsNone(out)

(***************************************************************************)
(* C14                                                                     *)
(***************************************************************************)
\* parse_cr30_csv has returned a result to main
C14_Returned == pc \in {"parse_ti2", "write_ti3", "done"}

\* the claim as stated: on a CSV file of zero bytes parse_cr30_csv raises and
\* returns no result
C14_EmptyRaises ==
    (~IsNone(csvFile) /\ Val(csvFile) = "") => ~C14_Returned

(***************************************************************************)
(* C15                                                                     *)
(***************************************************************************)
\* tok is a number written with exactly d decimals
C15_IsFixed(tok, d) ==
    LET n == Len(tok)
        whole == SubSeq(tok, 1, n - d - 1)
        digits == IF StartsWith(whole, "-") THEN SubSeq(whole, 2, Len(whole)) ELSE whole
    IN  /\ n >= d + 2
        /\ Ch(tok, n - d) = "."
        /\ AllIn(SubSeq(tok, n - d + 1, n), DigitSet)
        /\ digits # "" /\ AllIn(digits, DigitSet)

\* tok is what write_ti3 writes under a field of that name
C15_TokenFits(f, tok) ==
    IF f = "SAMPLE_ID" THEN tok # "" /\ AllIn(tok, DigitSet)
    ELSE IF f = "SAMPLE_LOC" THEN Len(tok) >= 2 /\ Ch(tok, 1) = "\"" /\ Ch(tok, Len(tok)) = "\""
    ELSE IF StartsWith(f, "LAB_") THEN C15_IsFixed(tok, 2)
    ELSE IF StartsWith(f, "XYZ_") \/ StartsWith(f, "SPEC_") THEN C15_IsFixed(tok, 6)
    ELSE C15_IsFixed(tok, 5)

\* the declared names are SAMPLE_ID, SAMPLE_LOC if any, the device fields, the
\* three XYZ names if any, the three Lab names if any, the SPEC_ names in
\* ascending order of wavelength
C15_FieldOrder(fs) ==
    LET bands == SpecBands(fs)
    IN  /\ \A k \in 1..(Len(bands) - 1) : bands[k] < bands[k + 1]
        /\ fs = <<"SAMPLE_ID">>
                \o (IF InSeq("SAMPLE_LOC", fs) THEN <<"SAMPLE_LOC">> ELSE <<>>)
                \o device_fields
                \o (IF InSeq("XYZ_X", fs) THEN XyzFields ELSE <<>>)
                \o (IF InSeq("LAB_L", fs) THEN LabFields ELSE <<>>)
                \o [k \in 1..Len(bands) |-> "SPEC_" \o Pad3(bands[k])]

\* NUMBER_OF_FIELDS is the number of the declared names fs, which come in
\* the order of the field list
C15_Header(fs) ==
    /\ Val(out).number_of_fields = Len(fs)
    /\ C15_FieldOrder(fs)

\* the cells cs of a data row are one token per declared name of fs, each of
\* the kind its field calls for
C15_RowFits(fs, cs) ==
    /\ Len(cs) = Len(fs)
    /\ \A k \in 1..Len(fs) : C15_TokenFits(fs[k], cs[k])

\* C15: in every written file NUMBER_OF_FIELDS is the number of names in the
\* format block; the names are SAMPLE_ID, optional SAMPLE_LOC, the device
\* fields, optional XYZ_X XYZ_Y XYZ_Z, optional LAB_L LAB_A LAB_B, then the
\* SPEC_ bands ascending; and every data row has exactly one token per
\* declared field, each of the kind its field calls for, in that order.
C15_OutputShape ==
    Written =>
        /\ C15_Header(WrittenFields)
        /\ Len(Val(out).data) = Val(out).number_of_sets
        /\ \A i \in 1..Len(Val(out).data) : C15_RowFits(WrittenFields, WrittenCells(i))

\* a file with every group: location, device fields, XYZ, Lab and two bands
C15_Witness ==
    /\ Written
    /\ Len(Val(out).data) >= 2
    /\ WrittenFields = <<"SAMPLE_ID", "SAMPLE_LOC", "RGB_R", "RGB_G", "RGB_B",
                         "XYZ_X", "XYZ_Y", "XYZ_Z", "LAB_L", "LAB_A", "LAB_B",
                         "SPEC_400", "SPEC_500">>
    /\ Val(out).number_of_fields = 13

(***************************************************************************)
(* C16                                                                     *)
(***************************************************************************)
\* some device field of the parsed layout starts with the prefix
C16_AnyDevice(prefix) == \E k \in 1..Len(device_fields) : StartsWith(device_fields[k], prefix)

\* some declared field of the written file starts with the prefix
C16_DeclaredIn(fs, prefix) == \E k \in 1..Len(fs) : StartsWith(fs[k], prefix)

C16_Declared(prefix) == C16_DeclaredIn(WrittenFields, prefix)

C16_DeviceTag ==
    IF C16_AnyDevice("RGB_") THEN "RGB" ELSE IF C16_AnyDevice("CMYK_") THEN "CMYK" ELSE "DEV"

C16_PcsTag ==
    IF C16_Declared("XYZ_") THEN "XYZ" ELSE IF C16_Declared("LAB_") THEN "LAB" ELSE "XYZ"

\* C16: the COLOR_REP tag of the written file is 'i' + device tag + '_' + PCS
\* tag; the device tag is RGB if a device field starts with RGB_, else CMYK if
\* one starts with CMYK_, else DEV; the PCS tag is XYZ if the XYZ group is in
\* the file, else LAB if the Lab group is, else XYZ.  So the tag ends in LAB
\* only when LAB_ fields are declared and XYZ_ fields are not.
C16_ColorRep ==
    Written =>
        /\ Val(out).color_rep = "i" \o C16_DeviceTag \o "_" \o C16_PcsTag
        /\ Val(out).color_rep \in {"iRGB_LAB", "iCMYK_LAB", "iDEV_LAB"} =>
              C16_Declared("LAB_") /\ ~C16_Declared("XYZ_")

\* a CMYK layout with a CSV that has Lab only
C16_Witness ==
    /\ Written
    /\ device_fields = <<"CMYK_C", "CMYK_M", "CMYK_Y", "CMYK_K">>
    /\ Val(out).color_rep = "iCMYK_LAB"
    /\ Len(Val(out).data) = 2

(***************************************************************************)
(* C17                                                                     *)
(***************************************************************************)
\* the CSV path or the layout path names no file
C17_InputMissing == IsNone(csvFile) \/ IsNone(ti2File)

\* nothing is parsed by the step
C17_NothingParsed == UNCHANGED <<lines, idx, pos, rows, illum_code, observer, ti2>>

\* nothing is created or written on the filesystem by the step
C17_NothingCreated == UNCHANGED <<out, out_dir>>

\* the claim as stated: when an input path names no file, the run exits with
\* status 2 before either parser is called, and no step of it parses anything
\* or creates or writes anything on the filesystem (no output file, no
\* output directory)
C17_FailFast ==
    /\ [](C17_InputMissing => pc \in {"resolve_output", "preflight", "exit_2"})
    /\ [][C17_InputMissing => (C17_NothingParsed /\ C17_NothingCreated)]_vars

(***************************************************************************)
(* C18                                                                     *)
(***************************************************************************)
\* cr30_to_ti3.write_ti3 has written its file from a CSV whose records carry
\* Lab and nothing else, XYZ being preferred over Lab
C18_LabOnlyWritten ==
    /\ pc = "done"
    /\ ~IsNone(args)
    /\ Val(args).prefer_xyz_over_lab
    /\ rows # <<>>
    /\ HasLab(rows) /\ ~HasXyz(rows) /\ ~HasSpec(rows)

\* the claim as stated: the file then declares XYZ_X XYZ_Y XYZ_Z and no LAB_
\* field, and the XYZ values of each data row are computed from the Lab
\* values of its record under the D50 white
C18_XyzFromLab ==
    C18_LabOnlyWritten =>
        /\ \A k \in 1..3 : InSeq(XyzFields[k], WrittenFields)
        /\ \A k \in 1..3 : ~InSeq(LabFields[k], WrittenFields)
        /\ \A i \in 1..Len(Val(out).data) :
              CellsOf(WrittenFields, WrittenCells(i), XyzFields)
                  = lab_to_xyz(Val(rows[i].L), Val(rows[i].a), Val(rows[i].b), "D50")

(***************************************************************************)
(* C19                                                                     *)
(***************************************************************************)
\* the column index of the header cell that normalizes to the name c or to
\* its "star" variant, if there is one
C19_ColumnOf(c) ==
    LET hmap == HMap(HeaderCells(lines[1]))
    IN  IF ~IsNone(HGet(hmap, c)) THEN HGet(hmap, c) ELSE HGet(hmap, c \o "star")

\* the header has been read and has a cell for L and none for X
C19_LabOnlyHeader ==
    /\ CsvLoop
    /\ ~IsNone(C19_ColumnOf("l"))
    /\ IsNone(C19_ColumnOf("x"))

\* the data lines handled so far whose cell in the L column is a number
C19_LinesWithL ==
    {k \in 1..pos : ~IsNone(FloatCell(Split(lines[k + 1], ";"), C19_ColumnOf("l")))}

\* the claim as stated: whenever a header cell normalizes to the L (a, b)
\* name, L (a, b) is read from that cell's column, whatever its index, 0
\* included; and under a header with an L cell and no X cell every data line
\* with a number in the L column is a record carrying that number
C19_PositionIndependent ==
    CsvLoop =>
        /\ ~IsNone(C19_ColumnOf("l")) => idx.idx_L = C19_ColumnOf("l")
        /\ ~IsNone(C19_ColumnOf("a")) => idx.idx_a = C19_ColumnOf("a")
        /\ ~IsNone(C19_ColumnOf("b")) => idx.idx_b = C19_ColumnOf("b")
        /\ C19_LabOnlyHeader =>
              /\ {RecordLine(rows[i]) : i \in 1..Len(rows)} = C19_LinesWithL
              /\ \A i \in 1..Len(rows) :
                    rows[i].L = FloatCell(Split(lines[RecordLine(rows[i]) + 1], ";"),
                                          C19_ColumnOf("l"))

(***************************************************************************)
(* C20                                                                     *)
(***************************************************************************)
\* the fields the layout file declares
C20_Fields ==
    FormatFields(Ti2Lines(Val(ti2File)), Val(FmtStart(Ti2Lines(Val(ti2File)))),
                 Val(FmtEnd(Ti2Lines(Val(ti2File)))))

\* the data lines of the layout file, tokenized
C20_DataRows ==
    LET dl == DataLines(Ti2Lines(Val(ti2File)))
    IN  [i \in 1..Len(dl) |-> Tokens(Strip(dl[i]))]

\* those of them whose token 0 is an integer
C20_IntRows == SelectSeq(C20_DataRows, LAMBDA toks : ~IsNone(PyInt(toks[1])))

\* the number at place j (from 1) of the tokens, 0.0 when the row has no such
\* token or the token is no number
C20_TokenValue(toks, j) ==
    IF j <= Len(toks) /\ ~IsNone(ToFloat(toks[j])) THEN Val(ToFloat(toks[j])) ELSE 0

\* the values the data line `toks` gives the device fields: for each, the
\* token at the field's place in the full declared field list `fields`
C20_ValuesOf(toks, fields) ==
    [k \in 1..Len(device_fields) |->
        C20_TokenValue(toks, IndexOf(fields, device_fields[k]) + 1)]

\* the device-sample table is the one the data lines intRows give under the
\* declared field list `fields`
C20_TableOf(intRows, fields) ==
    /\ \A i \in 1..Len(device_values) : Len(device_values[i][2]) = Len(device_fields)
    /\ Len(device_values) = Len(intRows)
    /\ \A r \in 1..Len(intRows) :
          \E i \in 1..Len(device_values) :
              /\ device_values[i][1] = Val(PyInt(intRows[r][1]))
              /\ device_values[i][2] = C20_ValuesOf(intRows[r], fields)

\* C20: every DeviceSample returned by parse_ti2 has one value per device
\* field, in device-field order, the value of a field being the parsed token
\* at the field's place in the full declared field list, 0.0 when the row
\* has no token there or the token is no number; the samples are those of
\* the data lines whose token 0 is an integer, a line whose token 0 is no
\* integer gives no sample, and no error is raised for it.
C20_DeviceValues ==
    /\ ~IsNone(ti2) => C20_TableOf(C20_IntRows, C20_Fields)
    /\ pc = "raised" => MissingFormatBlock(Ti2Lines(Val(ti2File)))

\* a layout whose device fields stand between other fields, with one data
\* line whose token 0 is no integer and one whose third token is no number:
\* one sample, its RGB_R 0.0 and its RGB_G read from the fifth token
C20_Witness ==
    /\ ~IsNone(ti2)
    /\ C20_Fields = <<"SAMPLE_ID", "XYZ_X", "RGB_R", "XYZ_Y", "RGB_G", "RGB_B">>
    /\ device_fields = <<"RGB_R", "RGB_G", "RGB_B">>
    /\ Len(C20_DataRows) = 2
    /\ Len(C20_IntRows) = 1
    /\ Len(device_values) = 1
    /\ device_values[1][2][1] = 0
    /\ device_values[1][2][2] = Val(ToFloat(C20_IntRows[1][5]))
    /\ device_values[1][2][2] # C20_TokenValue(C20_IntRows[1], 3)

(***************************************************************************)
(* C21                                                                     *)
(***************************************************************************)
\* the first components of a table of pairs do not decrease
C21_Ascending(table) ==
    \A i \in 1..(Len(table) - 1) : table[i][1] <= table[i + 1][1]

\* the sample ids of the layout's data rows, in file order
C21_FileSids ==
    LET rs == SampleRows(Ti2Lines(Val(ti2File)))
    IN  [i \in 1..Len(rs) |-> Val(PyInt(rs[i][1]))]

\* the SAMPLE_ID column of the written file
C21_WrittenSids ==
    [i \in 1..Len(Val(out).data) |-> Val(PyInt(WrittenCells(i)[1]))]

\* C21: whatever the file order of the layout's data rows, the device-sample
\* table parse_ti2 returns is in non-decreasing sample-id order, and so is
\* the location table; the SAMPLE_ID column of the written TI3 is therefore
\* non-decreasing as well.
C21_SortedBySid ==
    /\ ~IsNone(ti2) =>
          /\ C21_Ascending(device_values)
          /\ C21_Ascending(sample_locs)
    /\ Written =>
          \A i \in 1..(Len(C21_WrittenSids) - 1) : C21_WrittenSids[i] <= C21_WrittenSids[i + 1]

\* a layout whose rows come as 3, 1, 2 with explicit labels gave a file whose
\* SAMPLE_ID column reads 1, 2, 3
C21_Witness ==
    /\ Written
    /\ C21_FileSids = <<3, 1, 2>>
    /\ sample_locs # <<>>
    /\ C21_WrittenSids = <<1, 2, 3>>

(***************************************************************************)
(* C22                                                                     *)
(***************************************************************************)
\* what a Light Source/Angle text gives: (token upper-cased, digits as an
\* integer) when it starts with <token>/<digits>, nothing otherwise
C22_Illuminant(text) ==
    CASE text \in {"D65/10", "D65/10 "} -> Some(<<"D65", 10>>)
      [] text = "D50/10" -> Some(<<"D50", 10>>)
      [] text = "D50/2" -> Some(<<"D50", 2>>)
      [] text = "d50 / 2" -> Some(<<"D50", 2>>)
      [] text = "f11/10 deg" -> Some(<<"F11", 10>>)
      [] OTHER -> NoneVal

\* the Light Source/Angle text of each record so far, in file order
C22_Texts == [i \in 1..Len(rows) |-> rows[i].light_source_angle]

\* the records whose text matches
C22_Matches == {i \in 1..Len(rows) : ~IsNone(C22_Illuminant(C22_Texts[i]))}

\* the first of them
C22_First == CHOOSE i \in C22_Matches : \A j \in C22_Matches : i <= j

\* illuminant and observer are those of the first matching record so far,
\* and unset while no record has matched
C22_SetByFirst ==
    CsvLoop =>
        IF C22_Matches = {}
        THEN IsNone(illum_code) /\ IsNone(observer)
        ELSE /\ illum_code = Some(Val(C22_Illuminant(C22_Texts[C22_First]))[1])
             /\ observer = Some(Val(C22_Illuminant(C22_Texts[C22_First]))[2])

\* C22: while parse_cr30_csv scans the lines in file order, the illuminant
\* code and the observer angle are set by the first record whose Light
\* Source/Angle text matches <token>/<digits> (token upper-cased, digits as
\* an integer); once set no later step changes them; while no record has
\* matched they stay unset.
C22_FirstMatchWins ==
    /\ [](C22_SetByFirst)
    /\ [][~IsNone(illum_code) => UNCHANGED <<illum_code, observer>>]_vars

\* three records, the first without a match, the second and the third with
\* different matches: the loop is over and the second one's values stand
C22_Witness ==
    /\ pc = "parse_ti2"
    /\ Len(rows) = 3
    /\ C22_Texts = <<"x/y", "d50 / 2", "D65/10">>
    /\ illum_code = Some("D50")
    /\ observer = Some(2)

(***************************************************************************)
(* C23                                                                     *)
(***************************************************************************)
\* the (sample id, label) pair data row i of the written file shows
C23_WrittenPair(i) ==
    <<Val(PyInt(WrittenCells(i)[1])), CellOf(WrittenFields, WrittenCells(i), "SAMPLE_LOC")>>

\* the pairs of the location table, the label in double quotes as written
C23_TablePairs ==
    {<<sample_locs[k][1], "\"" \o sample_locs[k][2] \o "\"">> : k \in 1..Len(sample_locs)}

\* the claim as stated: in every data row of the written file that has a
\* SAMPLE_LOC token, the label is the one the location table gives the
\* sample id of that row, also when some layout rows are too short to carry
\* a SAMPLE_LOC token while the table has at least N entries
C23_LabelsAligned ==
    (Written /\ InSeq("SAMPLE_LOC", WrittenFields)) =>
        \A i \in 1..Len(Val(out).data) : C23_WrittenPair(i) \in C23_TablePairs

(***************************************************************************)
(* C24                                                                     *)
(***************************************************************************)
\* some written data row comes from a retained record whose values vs(row)
\* are complete
C24_Measured(vs(_)) == \E i \in 1..PairCount : Complete(vs(rows[i]))

\* the claim as stated: with N >= 1, whenever the XYZ fields (the Lab fields)
\* are declared in the written file, at least one of the N written data rows
\* comes from a retained record with a complete X, Y, Z (L, a, b); a declared
\* group is never zero on every written row
C24_DeclaredIsMeasured ==
    (Written /\ PairCount >= 1) =>
        /\ Declares(WrittenFields, XyzFields) => C24_Measured(XyzOf)
        /\ Declares(WrittenFields, LabFields) => C24_Measured(LabOf)

(***************************************************************************)
(* C25                                                                     *)
(***************************************************************************)
\* the written file has a header line that starts with the key
C25_HasLine(key) ==
    \E k \in 1..Len(Val(out).spectral) : StartsWith(Val(out).spectral[k], key \o " ")

\* the claim as stated: whenever INSTRUMENT_TYPE_SPECTRAL "YES" is written,
\* the SPECTRAL_BANDS, SPECTRAL_START_NM and SPECTRAL_END_NM lines are
\* written too, the format block declares at least one SPEC_ field, and
\* SPECTRAL_BANDS is the number of SPEC_ fields; also when the non-empty
\* wavelength sets of the records have no wavelength in common
C25_SpectralHeaderConsistent ==
    (Written /\ InSeq("INSTRUMENT_TYPE_SPECTRAL \"YES\"", Val(out).spectral)) =>
        /\ C25_HasLine("SPECTRAL_BANDS")
        /\ C25_HasLine("SPECTRAL_START_NM")
        /\ C25_HasLine("SPECTRAL_END_NM")
        /\ Len(SpecBands(WrittenFields)) >= 1
        /\ InSeq("SPECTRAL_BANDS \"" \o IntStr(Len(SpecBands(WrittenFields))) \o "\"",
                 Val(out).spectral)

====
